---------------------------- MODULE Spec2Model ----------------------------
(***************************************************************************)
(* A model of the URL analysis pipeline of knowledge-workspace:            *)
(*   - the route handler POST of app/api/analyze-url (src/unnamed/part_001)*)
(*   - the client helpers of src/lib/urlAnalyzer.ts                        *)
(*                                                                         *)
(* Texts are JavaScript strings.  A text is a sequence of items            *)
(* [c |-> ch, n |-> k]: the UTF-16 code unit ch repeated k times.  A code  *)
(* unit is written as a one-character string when it is printable ASCII    *)
(* (or \n, \t, \r), and as "u<decimal>" otherwise ("u65533" is U+FFFD).    *)
(* Only the filler character occurs with k > 1; it stands for long runs of *)
(* ordinary page text, so that the 3000 character cap of the excerpt is    *)
(* the program's own number.                                               *)
(***************************************************************************)
EXTENDS Integers, Sequences, FiniteSets, TLC

-----------------------------------------------------------------------------
(* Characters                                                              *)

\* The printable ASCII characters, 32 to 126 (the grave accent, 96, is left
\* out: a blank holds its place).
AsciiPrintable ==
  " !\"#$%&'()*+,-./0123456789:;<=>?@ABCDEFGHIJKLMNOPQRSTUVWXYZ[\\]^_ abcdefghijklmnopqrstuvwxyz{|}~"

\* The code unit k as a character (String.fromCharCode on one in-range unit).
Chr(k) ==
  IF k >= 32 /\ k <= 126 /\ k # 96 THEN SubSeq(AsciiPrintable, k - 31, k - 31)
  ELSE IF k = 10 THEN "\n"
  ELSE IF k = 9 THEN "\t"
  ELSE IF k = 13 THEN "\r"
  ELSE "u" \o ToString(k)

LowerLetters == {SubSeq(AsciiPrintable, i, i) : i \in 66..91}
UpperLetters == {SubSeq(AsciiPrintable, i, i) : i \in 34..59}
Digits == {SubSeq(AsciiPrintable, i, i) : i \in 17..26}

\* [a-zA-Z0-9]
IsAlnum(ch) == ch \in LowerLetters \cup UpperLetters \cup Digits

\* \s of a JavaScript regular expression, and the set trim() strips
\* (u160 = NBSP, u12288 = ideographic space, u65279 = BOM).
IsSpace(ch) == ch \in {" ", "\t", "\n", "\r", "u11", "u12", "u160", "u12288", "u65279"}

\* . of a JavaScript regular expression without the s flag
IsLineTerminator(ch) == ch \in {"\n", "\r", "u8232", "u8233"}

\* ASCII lower-casing, as the i flag compares ASCII letters
Lower(ch) ==
  IF ch \in UpperLetters
    THEN LET k == CHOOSE i \in 34..59 : SubSeq(AsciiPrintable, i, i) = ch
         IN SubSeq(AsciiPrintable, k + 32, k + 32)
    ELSE ch

\* The value of a digit in radix 16 (10 for a, ...); 99 for a non-digit.
DigitVal(ch) ==
  IF ch \in Digits
    THEN (CHOOSE i \in 17..26 : SubSeq(AsciiPrintable, i, i) = ch) - 17
  ELSE IF Lower(ch) \in {"a", "b", "c", "d", "e", "f"}
    THEN (CHOOSE i \in 66..71 : SubSeq(AsciiPrintable, i, i) = Lower(ch)) - 56
  ELSE 99

-----------------------------------------------------------------------------
(* Texts                                                                   *)

\* The text of a string literal.
T(s) == [i \in 1..Len(s) |-> [c |-> SubSeq(s, i, i), n |-> 1]]

\* One character.
Ch(ch) == <<[c |-> ch, n |-> 1]>>

\* k copies of the filler character.
FillChar == "."
Fill(k) == IF k = 0 THEN <<>> ELSE <<[c |-> FillChar, n |-> k]>>

\* The least element of a non-empty set of indices; 0 for the empty set.
First(S) == IF S = {} THEN 0 ELSE CHOOSE j \in S : \A k \in S : j <= k

\* The greatest element of a non-empty set of indices; 0 for the empty set.
Last(S) == IF S = {} THEN 0 ELSE CHOOSE j \in S : \A k \in S : k <= j

RECURSIVE TextLen(_)
\* text.length (summed by halves, to keep the evaluation shallow)
TextLen(t) ==
  IF Len(t) = 0 THEN 0
  ELSE IF Len(t) = 1 THEN t[1].n
  ELSE LET h == Len(t) \div 2
       IN TextLen(SubSeq(t, 1, h)) + TextLen(SubSeq(t, h + 1, Len(t)))

\* text.substring(0, k)
Substring(t, k) ==
  LET Cut(j, rest) ==
        IF j < Len(t) /\ rest > 0
          THEN SubSeq(t, 1, j) \o <<[c |-> t[j + 1].c, n |-> rest] >>
          ELSE SubSeq(t, 1, j)
      UpTo(j) == Cut(j, k - TextLen(SubSeq(t, 1, j)))
  IN UpTo(Last({j \in 0..Len(t) : TextLen(SubSeq(t, 1, j)) <= k}))

\* The items of t from index i on.
From(t, i) == SubSeq(t, i, Len(t))

\* Does the literal string lit occur in t at item i, ASCII case-insensitively?
\* (lit is lower case)
MatchCI(t, i, lit) ==
  /\ i + Len(lit) - 1 <= Len(t)
  /\ \A j \in 1..Len(lit) :
       /\ t[i + j - 1].n = 1
       /\ Lower(t[i + j - 1].c) = SubSeq(lit, j, j)

\* Does the text p occur in t at item i?
OccursAt(t, i, p) ==
  /\ i + Len(p) - 1 <= Len(t)
  /\ \A j \in 1..Len(p) : t[i + j - 1] = p[j]

\* text.includes(p)
Includes(t, p) == \E i \in 1..(Len(t) + 1) : OccursAt(t, i, p)

\* The number of places where p occurs in t.
Occurrences(t, p) == Cardinality({i \in 1..Len(t) : OccursAt(t, i, p)})

-----------------------------------------------------------------------------
(* decodeHtmlEntities                                                      *)

\* const entityMap
entityMap ==
  [e \in {"&amp;", "&lt;", "&gt;", "&quot;", "&#39;", "&apos;", "&nbsp;"} |->
     CASE e = "&amp;" -> "&"
       [] e = "&lt;" -> "<"
       [] e = "&gt;" -> ">"
       [] e = "&quot;" -> "\""
       [] e = "&#39;" -> "'"
       [] e = "&apos;" -> "'"
       [] e = "&nbsp;" -> " "]

RECURSIVE Str(_)
\* The characters of a run-free text as one string.
Str(t) == IF t = <<>> THEN "" ELSE Head(t).c \o Str(Tail(t))

\* The number of items from i on that are single [a-zA-Z0-9] characters.
AlnumRun(t, i) ==
  LET Run(stop) == IF stop = 0 THEN Len(t) + 1 - i ELSE stop - i
  IN Run(First({j \in i..Len(t) : ~(t[j].n = 1 /\ IsAlnum(t[j].c))}))

\* The length of the match of /&[#]?[a-zA-Z0-9]+;/ at item i, 0 when none.
EntityMatchLen(t, i) ==
  LET Closed(k, e) ==
        IF k >= 1 /\ e <= Len(t) /\ t[e] = [c |-> ";", n |-> 1] THEN e - i + 1 ELSE 0
      Name(b, k) == Closed(k, b + k)
      After(b) == Name(b, AlnumRun(t, b))
  IN IF ~(i <= Len(t) /\ t[i] = [c |-> "&", n |-> 1]) THEN 0
     ELSE After(IF i + 1 <= Len(t) /\ t[i + 1] = [c |-> "#", n |-> 1] THEN i + 2 ELSE i + 1)

RECURSIVE DigitsPrefix(_, _, _, _)
\* parseInt's digits: the value of the longest prefix of s (from index i) made
\* of digits of the radix, with acc the value so far and seen the digits read.
DigitsPrefix(s, i, radix, acc) ==
  LET Digit(d) ==
        IF d < radix
          THEN DigitsPrefix(s, i + 1, radix, [nan |-> FALSE, val |-> acc.val * radix + d])
          ELSE acc
  IN IF i <= Len(s) THEN Digit(DigitVal(SubSeq(s, i, i))) ELSE acc

\* parseInt(s, radix) for s of [a-zA-Z0-9]*: radix 16 skips a leading 0x or 0X;
\* no digit at all is NaN.
parseInt(s, radix) ==
  LET start == IF radix = 16 /\ Len(s) >= 2 /\ SubSeq(s, 1, 1) = "0"
                    /\ Lower(SubSeq(s, 2, 2)) = "x" THEN 3 ELSE 1
  IN DigitsPrefix(s, start, radix, [nan |-> TRUE, val |-> 0])

\* String.fromCharCode(v): ToUint16 of the number, NaN being 0.
fromCharCode(v) == IF v.nan THEN Chr(0) ELSE Chr(v.val % 65536)

\* The replacement callback of decodeHtmlEntities for one matched entity.
ReplaceEntity(entity) ==
  LET Code(digits, radix) == Ch(fromCharCode(parseInt(digits, radix)))
      Numeric(num) ==
        IF Len(num) >= 1 /\ SubSeq(num, 1, 1) = "x"
          THEN Code(SubSeq(num, 2, Len(num)), 16)
          ELSE Code(num, 10)
  IN IF entity \in DOMAIN entityMap THEN Ch(entityMap[entity])
     ELSE IF Len(entity) >= 2 /\ SubSeq(entity, 1, 2) = "&#"
       THEN Numeric(SubSeq(entity, 3, Len(entity) - 1))
     ELSE T(entity)

RECURSIVE DecodeFrom(_, _)
\* The replace of decodeHtmlEntities from item i on: the text up to the next
\* match is kept, the match is replaced, and the scan goes on after it.
DecodeFrom(t, i) ==
  LET Replaced(s, m) ==
        SubSeq(t, i, s - 1) \o ReplaceEntity(Str(SubSeq(t, s, s + m - 1)))
          \o DecodeFrom(t, s + m)
      Match(s) == IF s = 0 THEN From(t, i) ELSE Replaced(s, EntityMatchLen(t, s))
  IN Match(First({j \in i..Len(t) : EntityMatchLen(t, j) > 0}))

\* decodeHtmlEntities with its output decoded once more.
decodeHtmlEntitiesTwice(text) == DecodeFrom(DecodeFrom(text, 1), 1)

\* function decodeHtmlEntities(text)
decodeHtmlEntities(text) == DecodeFrom(text, 1)

-----------------------------------------------------------------------------
(* Title and body extraction                                               *)

\* The index of the first ">" at or after item i; 0 when there is none.
FirstGt(t, i) == First({j \in i..Len(t) : t[j].c = ">"})

\* The first index at or after i where the literal occurs; 0 when none.
FirstCI(t, i, lit) == First({j \in i..Len(t) : MatchCI(t, j, lit)})

\* /<title[^>]*>(.*?)<\/title>/i anchored at item i: <<first, last>> of group 1
\* (first = last + 1 for an empty group), <<>> when there is no match at i.
TitleMatchAt(t, i) ==
  LET Group(g, e) ==
        IF e = 0 THEN <<>>
        ELSE IF \E j \in (g + 1)..(e - 1) : IsLineTerminator(t[j].c) THEN <<>>
        ELSE <<g + 1, e - 1>>
      Opened(g) == IF g = 0 THEN <<>> ELSE Group(g, FirstCI(t, g + 1, "</title>"))
  IN IF ~MatchCI(t, i, "<title") THEN <<>> ELSE Opened(FirstGt(t, i + 6))

\* html.match(/<title[^>]*>(.*?)<\/title>/i): the leftmost match.
TitleMatch(t) ==
  LET At(s) == IF s = 0 THEN <<>> ELSE TitleMatchAt(t, s)
  IN At(First({j \in 1..Len(t) : TitleMatchAt(t, j) # <<>>}))

\* text.trim()
Trim(t) ==
  LET Kept(keep) == IF keep = {} THEN <<>> ELSE SubSeq(t, First(keep), Last(keep))
  IN Kept({j \in 1..Len(t) : ~IsSpace(t[j].c)})

\* const rawTitle = titleMatch ? titleMatch[1].trim() : hostname
RawTitle(html, hostname) ==
  LET Title(titleMatch) ==
        IF titleMatch # <<>> THEN Trim(SubSeq(html, titleMatch[1], titleMatch[2]))
        ELSE hostname
  IN Title(TitleMatch(html))

\* const pageTitle = decodeHtmlEntities(rawTitle)
PageTitle(html, hostname) == decodeHtmlEntities(RawTitle(html, hostname))

\* /<tag[^>]*>[\s\S]*?<\/tag>/i anchored at item i: the index of the last item
\* of the match, 0 when there is no match at i.  open is "<script", close
\* "</script>" (or the style pair).
ElementMatchEnd(t, i, open, close) ==
  LET Closed(e) == IF e = 0 THEN 0 ELSE e + Len(close) - 1
      Opened(g) == IF g = 0 THEN 0 ELSE Closed(FirstCI(t, g + 1, close))
  IN IF ~MatchCI(t, i, open) THEN 0 ELSE Opened(FirstGt(t, i + Len(open)))

RECURSIVE RemoveElements(_, _, _, _)
\* .replace(/<tag[^>]*>[\s\S]*?<\/tag>/gi, '') from item i on
RemoveElements(t, i, open, close) ==
  LET Removed(s, e) == SubSeq(t, i, s - 1) \o RemoveElements(t, e + 1, open, close)
      Match(s) == IF s = 0 THEN From(t, i) ELSE Removed(s, ElementMatchEnd(t, s, open, close))
  IN Match(First({j \in i..Len(t) : ElementMatchEnd(t, j, open, close) > 0}))

\* /<[^>]+>/ anchored at item i: the index of the closing ">", 0 when no match.
TagMatchEnd(t, i) ==
  IF ~(t[i].c = "<" /\ i + 1 <= Len(t) /\ t[i + 1].c # ">") THEN 0
  ELSE FirstGt(t, i + 2)

RECURSIVE StripTags(_, _)
\* .replace(/<[^>]+>/g, ' ') from item i on
StripTags(t, i) ==
  LET Match(s) ==
        IF s = 0 THEN From(t, i)
        ELSE SubSeq(t, i, s - 1) \o Ch(" ") \o StripTags(t, TagMatchEnd(t, s) + 1)
  IN Match(First({j \in i..Len(t) : TagMatchEnd(t, j) > 0}))

\* .replace(/\s+/g, ' '): the first character of every run of white space
\* becomes one blank, the rest of the run goes.
CollapseSpaces(t) ==
  LET Item(j) == IF IsSpace(t[j].c) THEN [c |-> " ", n |-> 1] ELSE t[j]
      Kept(keep) ==
        [k \in 1..Cardinality(keep) |->
           Item(CHOOSE j \in keep : Cardinality({o \in keep : o < j}) = k - 1)]
  IN Kept({j \in 1..Len(t) : ~(IsSpace(t[j].c) /\ j > 1 /\ IsSpace(t[j - 1].c))})

\* The fixed maximum length of the body excerpt.
ExcerptCap == 3000

\* The visible text of the page before truncation.
VisibleText(html) ==
  Trim(CollapseSpaces(StripTags(
    RemoveElements(RemoveElements(html, 1, "<script", "</script>"),
                   1, "<style", "</style>"), 1)))

\* A variant of RawBodyText that decodes the entities before it cuts.
DecodedBodyText(html) == Substring(decodeHtmlEntities(VisibleText(html)), ExcerptCap)

\* A variant of RawBodyText that leaves out substring(0, 3000).
UncutBodyText(html) == VisibleText(html)

\* const rawBodyText = html.replace(...)...trim().substring(0, 3000)
RawBodyText(html) == Substring(VisibleText(html), ExcerptCap)

\* const bodyText = decodeHtmlEntities(rawBodyText)
BodyText(html) == decodeHtmlEntities(RawBodyText(html))

-----------------------------------------------------------------------------
(* Charset resolution                                                      *)

\* The encodings of the platform's TextDecoder that the model knows.  A
\* payload (the ArrayBuffer of the response) is given by what each strict
\* decoder makes of it and by its lossy UTF-8 decoding:
\*   [strict |-> [Encodings -> [ok |-> BOOLEAN, text |-> Text]], lossy |-> Text]
Encodings == {"utf-8", "shift_jis", "euc-jp", "iso-2022-jp", "windows-1252"}

\* U+FFFD, the replacement character
Replacement == "u65533"

\* decoded.includes('\uFFFD')
HasReplacement(t) == \E j \in 1..Len(t) : t[j].c = Replacement

\* The lower-cased characters of a run-free text, as a string.
LowerStr(t) == Str([j \in 1..Len(t) |-> [c |-> Lower(t[j].c), n |-> 1]])

\* The encoding a TextDecoder label names (labels are trimmed and compared
\* case-insensitively by the platform); "RangeError" for a label it rejects.
EncodingOfLabel(label) ==
  LET Named(l) ==
        CASE l \in {"utf-8", "utf8", "unicode-1-1-utf-8"} -> "utf-8"
          [] l \in {"shift_jis", "shift-jis", "sjis", "x-sjis", "windows-31j"} -> "shift_jis"
          [] l \in {"euc-jp", "x-euc-jp"} -> "euc-jp"
          [] l \in {"iso-2022-jp", "csiso2022jp"} -> "iso-2022-jp"
          [] l \in {"windows-1252", "iso-8859-1", "latin1", "us-ascii"} -> "windows-1252"
          [] OTHER -> "RangeError"
  IN Named(LowerStr(Trim(label)))

\* new TextDecoder(label, { fatal: true }).decode(buffer): the text, or not ok
\* when the constructor or the decode throws.
StrictDecode(buffer, label) ==
  LET As(e) ==
        IF e = "RangeError" \/ ~buffer.strict[e].ok
          THEN [ok |-> FALSE, text |-> <<>>, used |-> "none"]
          ELSE [ok |-> TRUE, text |-> buffer.strict[e].text, used |-> e]
  IN As(EncodingOfLabel(label))

\* A variant of charsets that tries the legacy charset first.
charsetsLegacyFirst == <<"shift_jis", "utf-8", "euc-jp", "iso-2022-jp">>

\* The candidate list with windows-1252, which reads every payload, at its end.
charsetsWithLatin == <<"utf-8", "shift_jis", "euc-jp", "iso-2022-jp", "windows-1252">>

\* const charsets of tryDecodeWithCharsets
charsets == <<"utf-8", "shift_jis", "euc-jp", "iso-2022-jp">>

\* function tryDecodeWithCharsets(buffer): the text and (for the record) the
\* charset it was decoded with.
tryDecodeWithCharsets(buffer) ==
  LET Clean(decoded) == decoded.ok /\ ~HasReplacement(decoded.text)
      Returned(decoded) == [html |-> decoded.text, used |-> decoded.used]
      Tried(i) ==
        IF i = 0 THEN [html |-> buffer.lossy, used |-> "utf-8 (lossy)"]
        ELSE Returned(StrictDecode(buffer, T(charsets[i])))
  IN Tried(First({i \in 1..Len(charsets) : Clean(StrictDecode(buffer, T(charsets[i])))}))

\* contentType.match(/charset=([^;]+)/i): group 1, <<>> when there is no match.
ContentTypeCharset(contentType) ==
  LET Group(s, semi) ==
        SubSeq(contentType, s + 8, IF semi = 0 THEN Len(contentType) ELSE semi - 1)
      Match(s) ==
        IF s = 0 THEN <<>>
        ELSE Group(s, First({j \in (s + 8)..Len(contentType) : contentType[j].c = ";"}))
  IN Match(First({j \in 1..Len(contentType) :
                    /\ MatchCI(contentType, j, "charset=")
                    /\ j + 8 <= Len(contentType)
                    /\ contentType[j + 8].c # ";"}))

\* let detectedCharset = contentTypeCharset ? contentTypeCharset[1].trim() : null
\* (<<>> stands for null and for the empty string: both are falsy)
DetectedCharset(contentType) == Trim(ContentTypeCharset(contentType))

\* The characters a <meta charset> value may not contain: ["'\s>]
IsMetaStop(ch) == ch \in {"\"", "'", ">"} \/ IsSpace(ch)

\* The capture of ["']?([^"'\s>]+) at item q: <<first, last>>, <<>> when none.
MetaCapture(t, q) ==
  LET Group(b, e) == IF b <= Len(t) /\ e >= b THEN <<b, e>> ELSE <<>>
      Until(b, stop) == Group(b, IF stop = 0 THEN Len(t) ELSE stop - 1)
      Begin(b) == Until(b, First({j \in b..Len(t) : IsMetaStop(t[j].c)}))
  IN Begin(IF q <= Len(t) /\ t[q].c \in {"\"", "'"} THEN q + 1 ELSE q)

\* /<meta[^>]+charset=["']?([^"'\s>]+)/i anchored at item i: the start of the
\* "charset=" the greedy [^>]+ ends before (the last one that lets the rest
\* match), 0 when there is no match at i.
MetaMatchAt(t, i) ==
  LET Within(lim) ==
        Last({p \in (i + 6)..lim :
                /\ MatchCI(t, p, "charset=")
                /\ p + 7 <= lim
                /\ MetaCapture(t, p + 8) # <<>>})
      Before(gt) == Within(IF gt = 0 THEN Len(t) ELSE gt - 1)
  IN IF ~MatchCI(t, i, "<meta") THEN 0 ELSE Before(FirstGt(t, i + 5))

\* html.match(/<meta[^>]+charset=["']?([^"'\s>]+)/i): group 1 of the leftmost
\* match, lower-cased as metaCharsetMatch[1].toLowerCase(); <<>> when none.
MetaCharset(html) ==
  LET Group(cap) == T(LowerStr(SubSeq(html, cap[1], cap[2])))
      Match(s) ==
        IF s = 0 THEN <<>> ELSE Group(MetaCapture(html, MetaMatchAt(html, s) + 8))
  IN Match(First({j \in 1..Len(html) : MetaMatchAt(html, j) > 0}))

\* The <meta charset> step of the branch without a Content-Type charset.
\* The <meta> step taking every strict decoding that succeeds.
MetaRedecodeUnchecked(first, buffer) ==
  LET Redecoded(reDecoded) ==
        IF reDecoded.ok THEN [html |-> reDecoded.text, used |-> reDecoded.used] ELSE first
      Meta(metaCharset) ==
        IF /\ metaCharset # <<>>
           /\ metaCharset # T("utf-8")
           /\ ~HasReplacement(first.html)
          THEN Redecoded(StrictDecode(buffer, metaCharset))
          ELSE first
  IN Meta(MetaCharset(first.html))

MetaRedecode(first, buffer) ==
  LET Redecoded(reDecoded) ==
        IF reDecoded.ok /\ ~HasReplacement(reDecoded.text)
          THEN [html |-> reDecoded.text, used |-> reDecoded.used]
          ELSE first
      Meta(metaCharset) ==
        IF /\ metaCharset # <<>>
           /\ metaCharset # T("utf-8")
           /\ ~HasReplacement(first.html)
          THEN Redecoded(StrictDecode(buffer, metaCharset))
          ELSE first
  IN Meta(MetaCharset(first.html))

\* The decoding of the response body: html, and for the record the charset
\* that produced it.
\* The resolution without the candidate list after a header charset that fails.
ResolveCharsetNoFallback(contentType, buffer) ==
  LET Declared(decoded) ==
        IF decoded.ok THEN [html |-> decoded.text, used |-> decoded.used]
        ELSE [html |-> <<>>, used |-> "none"]
      Resolved(detectedCharset, tried) ==
        IF detectedCharset # <<>>
          THEN Declared(StrictDecode(buffer, detectedCharset))
          ELSE MetaRedecode(tried, buffer)
  IN Resolved(DetectedCharset(contentType), tryDecodeWithCharsets(buffer))

\* The resolution with the <meta> step after every path.
ResolveCharsetMetaAlways(contentType, buffer) ==
  LET Declared(decoded, fallback) ==
        IF decoded.ok THEN [html |-> decoded.text, used |-> decoded.used] ELSE fallback
      Resolved(detectedCharset, tried) ==
        MetaRedecode(IF detectedCharset # <<>>
                       THEN Declared(StrictDecode(buffer, detectedCharset), tried)
                       ELSE tried, buffer)
  IN Resolved(DetectedCharset(contentType), tryDecodeWithCharsets(buffer))

ResolveCharset(contentType, buffer) ==
  LET Declared(decoded, fallback) ==
        IF decoded.ok THEN [html |-> decoded.text, used |-> decoded.used] ELSE fallback
      Resolved(detectedCharset, tried) ==
        IF detectedCharset # <<>>
          THEN Declared(StrictDecode(buffer, detectedCharset), tried)
          ELSE MetaRedecode(tried, buffer)
  IN Resolved(DetectedCharset(contentType), tryDecodeWithCharsets(buffer))

-----------------------------------------------------------------------------
(* new URL(text)                                                           *)

\* The platform's URL parser on the shapes of input the model draws: a scheme,
\* then for the special schemes slashes, a host without credentials or port,
\* and a path without query or fragment; for other schemes an opaque path or
\* "//host/path".  The result is [ok, protocol, hostname, pathname]; ok is
\* FALSE where new URL throws.
NotAUrl == [ok |-> FALSE, protocol |-> "", hostname |-> <<>>, pathname |-> <<>>]

SpecialSchemes == {"http:", "https:", "ftp:", "ws:", "wss:"}

IsSchemeChar(ch) == IsAlnum(ch) \/ ch \in {"+", "-", "."}

IsForbiddenHostChar(ch) ==
  ch \in {" ", "#", "/", ":", "<", ">", "?", "@", "[", "\\", "]", "^", "|", "%"}

IsSlash(ch) == ch \in {"/", "\\"}

\* A special scheme: the host runs from the first item of rest that is not a
\* slash (h) to the next slash (e), and the path is what follows.
ParseSpecial(protocol, rest) ==
  LET Parsed(host, pathname) ==
        IF \E j \in 1..Len(host) : IsForbiddenHostChar(host[j].c) THEN NotAUrl
        ELSE [ok |-> TRUE, protocol |-> protocol,
              hostname |-> T(LowerStr(host)), pathname |-> pathname]
      Host(h, e) ==
        Parsed(SubSeq(rest, h, IF e = 0 THEN Len(rest) ELSE e - 1),
               IF e = 0 THEN T("/") ELSE From(rest, e))
      Authority(h) ==
        IF h = 0 THEN NotAUrl ELSE Host(h, First({j \in h..Len(rest) : IsSlash(rest[j].c)}))
  IN Authority(First({j \in 1..Len(rest) : ~IsSlash(rest[j].c)}))

\* Any other scheme: "//host/path", or an opaque path.
ParseOther(protocol, rest) ==
  LET Host(e) ==
        [ok |-> TRUE, protocol |-> protocol,
         hostname |-> SubSeq(rest, 3, IF e = 0 THEN Len(rest) ELSE e - 1),
         pathname |-> IF e = 0 THEN <<>> ELSE From(rest, e)]
  IN IF OccursAt(rest, 1, T("//"))
       THEN Host(First({j \in 3..Len(rest) : rest[j].c = "/"}))
       ELSE [ok |-> TRUE, protocol |-> protocol, hostname |-> <<>>, pathname |-> rest]

ParseUrl(text) ==
  LET Rest(protocol, rest) ==
        IF protocol \in SpecialSchemes
          THEN ParseSpecial(protocol, rest) ELSE ParseOther(protocol, rest)
      Scheme(u, colon) ==
        IF colon <= 1 THEN NotAUrl
        ELSE IF ~(/\ Lower(u[1].c) \in LowerLetters
                  /\ \A j \in 1..(colon - 1) : IsSchemeChar(u[j].c)) THEN NotAUrl
        ELSE Rest(LowerStr(SubSeq(u, 1, colon)), From(u, colon + 1))
      Trimmed(u) == Scheme(u, First({j \in 1..Len(u) : u[j].c = ":"}))
  IN Trimmed(Trim(text))

\* pathname.split('/').filter(Boolean): the non-empty segments, in order.
PathParts(pathname) ==
  LET Upto(j, stop) == SubSeq(pathname, j, IF stop = 0 THEN Len(pathname) ELSE stop - 1)
      Part(j) == Upto(j, First({o \in j..Len(pathname) : pathname[o].c = "/"}))
      Parts(starts) ==
        [k \in 1..Cardinality(starts) |->
           Part(CHOOSE j \in starts : Cardinality({o \in starts : o < j}) = k - 1)]
  IN Parts({j \in 1..Len(pathname) :
              pathname[j].c # "/" /\ (j = 1 \/ pathname[j - 1].c = "/")})

RECURSIVE Join(_, _)
\* parts.join(sep)
Join(parts, sep) ==
  IF parts = <<>> THEN <<>>
  ELSE IF Len(parts) = 1 THEN parts[1]
  ELSE parts[1] \o sep \o Join(Tail(parts), sep)

\* export function isValidUrl(text)
isValidUrl(text) ==
  LET Http(urlObj) == urlObj.ok /\ urlObj.protocol \in {"http:", "https:"}
  IN Http(ParseUrl(Trim(text)))

\* export function isSlackUrl(url)
isSlackUrl(url) ==
  LET Slack(urlObj) == urlObj.ok /\ Includes(urlObj.hostname, T("slack.com"))
  IN Slack(ParseUrl(url))

-----------------------------------------------------------------------------
(* The responses of the route                                              *)

\* The text of a list of code units (the Japanese of the templates).
U(codes) == [i \in 1..Len(codes) |-> [c |-> Chr(codes[i]), n |-> 1]]

\* 'URL ga shitei sarete imasen' (no URL was given), line 9
MsgMissingUrl ==
  T("URL") \o
  U(<<12364, 25351, 23450, 12373, 12428, 12390, 12356, 12414, 12379, 12435>>)

\* 'mukou na URL desu' (the URL is invalid), line 20
MsgInvalidUrl ==
  U(<<28961, 21177, 12394>>) \o T("URL") \o U(<<12391, 12377>>)

\* 'URL kaiseki-chuu ni error ga hassei shimashita' (an error occurred while
\* analysing the URL), line 227
MsgAnalysisFailed ==
  T("URL") \o
  U(<<35299, 26512, 20013, 12395, 12456, 12521, 12540, 12364, 30330, 29983,
      12375, 12414, 12375, 12383>>)

\* '## AI youyaku' (AI summary), line 182
HeadingAiSummary == T("## AI") \o U(<<35201, 32004>>)

\* '## gaiyou' (overview), line 190
HeadingExcerpt == T("## ") \o U(<<27010, 35201>>)

\* '[moto no page wo hiraku](' (open the original page), lines 182 and 190
LinkOriginal ==
  T("[") \o
  U(<<20803, 12398, 12506, 12540, 12472, 12434, 38283, 12367>>) \o T("](")

\* '# Slack link', line 201
HeadingSlack == T("# Slack ") \o U(<<12522, 12531, 12463>>)

\* '## chuui' and the notice that Slack content is private and has to be
\* opened directly, line 201
SlackNotice ==
  T("## ") \o U(<<27880, 24847>>) \o T("\nSlack") \o
  U(<<12398, 12467, 12531, 12486, 12531, 12484, 12399, 12503, 12521, 12452,
      12505, 12540, 12488, 12394, 12383, 12417, 12289, 30452, 25509, 12450,
      12463, 12475, 12473, 12375, 12390, 20869, 23481, 12434, 30906, 35469,
      12375, 12390, 12367, 12384, 12373, 12356, 12290>>)

\* '[Slack de hiraku](' (open in Slack), line 201
LinkSlack == T("[Slack") \o U(<<12391, 38283, 12367>>) \o T("](")

\* 'message', the title used when the path has no segment, line 200
SlackDefaultName == U(<<12513, 12483, 12475, 12540, 12472>>)

\* '# GitHub link', line 211
HeadingGitHub == T("# GitHub ") \o U(<<12522, 12531, 12463>>)

\* 'repository: ', line 211
LabelRepository == U(<<12522, 12509, 12472, 12488, 12522>>) \o T(": ")

\* '[GitHub de hiraku](' (open in GitHub), line 211
LinkGitHub == T("[GitHub") \o U(<<12391, 38283, 12367>>) \o T("](")

\* '## naiyou' and the notice that the content of the URL could not be
\* fetched and has to be opened directly, line 219
GenericNotice ==
  T("## ") \o U(<<20869, 23481>>) \o T("\n") \o
  U(<<12371, 12398>>) \o T("URL") \o
  U(<<12398, 35443, 32048, 12394, 20869, 23481, 12434,
      21462, 24471, 12391, 12365, 12414, 12379, 12435, 12391, 12375, 12383,
      12290, 30452, 25509, 12450, 12463, 12475, 12473, 12375, 12390, 12367,
      12384, 12373, 12356, 12290>>)

\* '[link wo hiraku](' (open the link), line 219
LinkGeneric ==
  T("[") \o U(<<12522, 12531, 12463, 12434, 38283, 12367>>) \o T("](")

NoResponse ==
  [status |-> 0, kind |-> "none", error |-> <<>>, title |-> <<>>, content |-> <<>>]

\* NextResponse.json({ error }, { status })
ErrorResponse(status, message) ==
  [status |-> status, kind |-> "error", error |-> message, title |-> <<>>, content |-> <<>>]

\* NextResponse.json({ title, content }); kind records which template made it.
NoteResponse(kind, title, content) ==
  [status |-> 200, kind |-> kind, error |-> <<>>, title |-> title, content |-> content]

\* The 400 responses of the validation, lines 7 to 23.
MissingUrl == ErrorResponse(400, MsgMissingUrl)
InvalidUrl == ErrorResponse(400, MsgInvalidUrl)

\* The response of the outer catch, lines 223 to 229.
AnalysisFailed == ErrorResponse(500, MsgAnalysisFailed)

\* The validation of the route: the error response, or NoResponse when the
\* handler goes on.  An empty text stands for every falsy url.
Validate(url) ==
  IF url = <<>> THEN MissingUrl
  ELSE IF ~ParseUrl(url).ok THEN InvalidUrl
  ELSE NoResponse

\* bodyText.substring(0, 500)
ExcerptShown == 500

\* The response with the AI summary, lines 180 to 183.
AiNote(url, pageTitle, summary) ==
  NoteResponse("ai", pageTitle,
    T("# ") \o pageTitle \o T("\n\nURL: ") \o url \o T("\n\n") \o HeadingAiSummary
      \o T("\n\n") \o summary \o T("\n\n") \o LinkOriginal \o url \o T(")"))

\* A variant of ExcerptNote whose content starts at the "URL:" line.
ExcerptNoteNoHeading(url, pageTitle, bodyText) ==
  NoteResponse("excerpt", pageTitle,
    T("URL: ") \o url \o T("\n\n") \o HeadingExcerpt
      \o T("\n\n") \o Substring(bodyText, ExcerptShown) \o T("...\n\n")
      \o LinkOriginal \o url \o T(")"))

\* The response with the excerpt, lines 188 to 191.
ExcerptNote(url, pageTitle, bodyText) ==
  NoteResponse("excerpt", pageTitle,
    T("# ") \o pageTitle \o T("\n\nURL: ") \o url \o T("\n\n") \o HeadingExcerpt
      \o T("\n\n") \o Substring(bodyText, ExcerptShown) \o T("...\n\n")
      \o LinkOriginal \o url \o T(")"))

\* The Slack note, lines 198 to 203.
SlackNote(url, parts) ==
  NoteResponse("slack",
    T("Slack - ") \o (IF parts = <<>> THEN SlackDefaultName ELSE parts[Len(parts)]),
    HeadingSlack \o T("\n\nURL: ") \o url \o T("\n\n") \o SlackNotice \o T("\n\n")
      \o LinkSlack \o url \o T(")"))

\* A variant of GitHubNote whose repository line names the owner only.
GitHubNoteOwnerOnly(url, parts) ==
  NoteResponse("github",
    T("GitHub - ") \o Join(parts, T("/")),
    HeadingGitHub \o T("\n\nURL: ") \o url \o T("\n\n") \o LabelRepository
      \o parts[1] \o T("\n\n") \o LinkGitHub \o url \o T(")"))

\* The GitHub note, lines 209 to 212.
GitHubNote(url, parts) ==
  NoteResponse("github",
    T("GitHub - ") \o Join(parts, T("/")),
    HeadingGitHub \o T("\n\nURL: ") \o url \o T("\n\n") \o LabelRepository
      \o parts[1] \o T("/") \o parts[2] \o T("\n\n") \o LinkGitHub \o url \o T(")"))

\* A variant of GenericNote whose content leaves out the "URL:" line.
GenericNoteLinkOnly(url, hostname) ==
  NoteResponse("generic", hostname,
    T("# ") \o hostname \o T("\n\n") \o GenericNotice
      \o T("\n\n") \o LinkGeneric \o url \o T(")"))

\* The note for any other host, lines 217 to 220.
GenericNote(url, hostname) ==
  NoteResponse("generic", hostname,
    T("# ") \o hostname \o T("\n\nURL: ") \o url \o T("\n\n") \o GenericNotice
      \o T("\n\n") \o LinkGeneric \o url \o T(")"))

\* A variant of CatchFetchError that looks for the code host first.
CatchFetchErrorGitHubFirst(url) ==
  LET Note(hostname, parts) ==
        IF Includes(hostname, T("github.com")) /\ Len(parts) >= 2
          THEN GitHubNote(url, parts)
        ELSE IF Includes(hostname, T("slack.com")) THEN SlackNote(url, parts)
        ELSE GenericNote(url, hostname)
      Fallback(urlObj) == Note(urlObj.hostname, PathParts(urlObj.pathname))
  IN Fallback(ParseUrl(url))

\* catch (fetchError): the response of the inner catch block, lines 193 to 221.
CatchFetchError(url) ==
  LET Note(hostname, parts) ==
        IF Includes(hostname, T("slack.com")) THEN SlackNote(url, parts)
        ELSE IF Includes(hostname, T("github.com")) /\ Len(parts) >= 2
          THEN GitHubNote(url, parts)
        ELSE GenericNote(url, hostname)
      Fallback(urlObj) == Note(urlObj.hostname, PathParts(urlObj.pathname))
  IN Fallback(ParseUrl(url))

-----------------------------------------------------------------------------
(* The environment of the calls                                            *)

\* A payload every decoder reads the same way (ASCII bytes).
AllAgree(doc) ==
  [strict |-> [e \in Encodings |-> [ok |-> TRUE, text |-> doc]], lossy |-> doc]

\* A payload that is valid Shift_JIS only: the UTF-8 decoder rejects it, and
\* its lossy decoding is garbled.
ShiftJisOnly(doc, garbled) ==
  [strict |-> [e \in Encodings |->
                 IF e \in {"shift_jis", "windows-1252"}
                   THEN [ok |-> TRUE, text |-> IF e = "shift_jis" THEN doc ELSE garbled]
                   ELSE [ok |-> FALSE, text |-> <<>>]],
   lossy |-> garbled \o Ch(Replacement)]

\* A payload no candidate decodes: only the lossy decoding is left.
Undecodable(garbled) ==
  [strict |-> [e \in Encodings |->
                 IF e = "windows-1252" THEN [ok |-> TRUE, text |-> garbled]
                 ELSE [ok |-> FALSE, text |-> <<>>]],
   lossy |-> garbled \o Ch(Replacement)]

\* A payload that is valid UTF-8 and valid Shift_JIS, read differently.
Utf8AndShiftJis(doc, asShiftJis, asLatin) ==
  [strict |-> [e \in Encodings |->
                 CASE e = "utf-8" -> [ok |-> TRUE, text |-> doc]
                   [] e = "shift_jis" -> [ok |-> TRUE, text |-> asShiftJis]
                   [] e = "windows-1252" -> [ok |-> TRUE, text |-> asLatin]
                   [] OTHER -> [ok |-> FALSE, text |-> <<>>]],
   lossy |-> doc]

\* The documents the target serves in the model.
DocHello == T("<html><head><title>Hello</title></head><body>World</body></html>")
DocEntities ==
  T("<TITLE> Q&amp;A &#x41; </TITLE><script>var s = '<b>';</script><p>a &lt; b &amp;amp; c</p>")
DocNoTitle == T("<style>p{}</style><p>see http://example.com/ </p>")
DocLong == T("<title>Long</title><p>") \o Fill(2987) \o T("&amp;&amp;</p>") \o Fill(600)
DocMeta == T("<meta charset=shift_jis><title>caf") \o Ch("u233") \o T("</title>ok")
DocMetaAsShiftJis ==
  T("<meta charset=shift_jis><title>caf") \o Ch("u65411") \o Ch("u65385") \o T("</title>ok")
DocMetaAsLatin ==
  T("<meta charset=shift_jis><title>caf") \o Ch("u195") \o Ch("u169") \o T("</title>ok")
DocJapanese == T("<title>") \o U(<<26085, 26412>>) \o T("</title><p>") \o U(<<35486>>) \o T("</p>")
DocGarbled == T("<title>") \o Ch("u8221") \o T("</title>")

Buffers ==
  {AllAgree(DocHello), AllAgree(DocEntities), AllAgree(DocNoTitle), AllAgree(DocLong),
   ShiftJisOnly(DocJapanese, DocGarbled), Undecodable(DocGarbled),
   Utf8AndShiftJis(DocMeta, DocMetaAsShiftJis, DocMetaAsLatin)}

\* The Content-Type headers the target sends in the model.
ContentTypes ==
  {<<>>, T("text/html; charset=UTF-8"), T("text/html; charset=Shift_JIS"),
   T("text/html; charset=\"utf-8\"")}

\* What the target does with a GET: it answers 2xx with a header and a body,
\* answers 2xx and breaks off the body ("body_error"), answers non-2xx
\* ("http_error"), the transport fails ("network_error"), or it accepts the
\* request and never answers ("silent").  The summarization endpoint answers
\* a request ("answers") or never does ("silent").
FailedRemote(outcome) ==
  [outcome |-> outcome, contentType |-> <<>>, buffer |-> AllAgree(<<>>),
   summarizer |-> "answers"]

Remotes ==
  {[outcome |-> "ok", contentType |-> ct, buffer |-> b, summarizer |-> "answers"] :
     ct \in ContentTypes, b \in Buffers}
    \cup {FailedRemote(o) : o \in {"body_error", "http_error", "network_error"}}

\* The url values of the request bodies; the empty text stands for a missing
\* or otherwise falsy url.
UrlInputs ==
  {<<>>, T("not a url"), T("example.com/page"), T("ftp://files.example.com/a"),
   T("mailto:a@b.c"), T("http://example.com/"), T("https://app.slack.com/client/T1"),
   T("https://github.com/owner/repo"), T("https://github.com/owner"),
   T("https://slack.com.github.com/a/b"), T("https://slack.com/"),
   T("https://github.com/owner/repo/issues"), T("http://example.com/a)b")}

\* What the summarization endpoint may send as the body of a 2xx response:
\* nothing JSON can read, a JSON body without a first choice, or a JSON body
\* whose first choice carries the summary.
AiBodies ==
  {[readable |-> FALSE, choices |-> <<>>],
   [readable |-> TRUE, choices |-> <<>>],
   [readable |-> TRUE, choices |-> <<T("- a point")>>],
   [readable |-> TRUE, choices |-> <<T("- see http://example.com/"), T("- second")>>]}

\* The number of calls of the model.
MaxCalls == 2
Calls == 1..MaxCalls

-----------------------------------------------------------------------------
(* State                                                                   *)

VARIABLES
  apiKey,    \* is process.env.OPENAI_API_KEY set
  remote,    \* what the target answers to a GET
  pc,        \* where each call stands
  origin,    \* "client" for a call through analyzeUrl, "direct" for a bare POST
  url,       \* the url of each call's request
  local,     \* the locals of the handler that outlive an await
  response,  \* the response of the route
  result,    \* what analyzeUrl returned
  log,       \* the calls of fetch and what they settled with, per call, in order
  probe      \* the input and output of a function applied on its own

vars == <<apiKey, remote, pc, origin, url, local, response, result, log, probe>>

NoLocal ==
  [html |-> <<>>, used |-> "none", pageTitle |-> <<>>, rawBodyText |-> <<>>,
   bodyText |-> <<>>, summary |-> <<>>]

NoResult == [returned |-> FALSE, title |-> <<>>, content |-> <<>>, error |-> <<>>]

NoProbe == [fn |-> "none", stage |-> "none"]

Logged(c, event) == \E i \in 1..Len(log[c]) : log[c][i] = event

\* The state of the calls before any request.
InitCalls(active) ==
  /\ pc = [c \in Calls |-> IF c \in active THEN "idle" ELSE "off"]
  /\ origin = [c \in Calls |-> "none"]
  /\ url = [c \in Calls |-> <<>>]
  /\ local = [c \in Calls |-> NoLocal]
  /\ response = [c \in Calls |-> NoResponse]
  /\ result = [c \in Calls |-> NoResult]
  /\ log = [c \in Calls |-> <<>>]

Init ==
  /\ apiKey \in BOOLEAN
  /\ remote \in Remotes
  /\ InitCalls({1})
  /\ probe = NoProbe

-----------------------------------------------------------------------------
(* analyzeUrl, the client                                                  *)

\* The message of the TypeError new URL throws.
MsgTypeError == T("Invalid URL")

\* 'URL kaiseki ni shippai shimashita' (the analysis of the URL failed),
\* urlAnalyzer.ts lines 21 and 31
MsgClientDefault ==
  T("URL") \o U(<<35299, 26512, 12395, 22833, 25943, 12375, 12414, 12375, 12383>>)

\* The value of the catch block of analyzeUrl.
ClientError(message) ==
  [returned |-> TRUE, title |-> <<>>, content |-> <<>>, error |-> message]

\* analyzeUrl up to its fetch: new URL(url) throws and the call returns, or the
\* request goes to the route.
AnalyzeUrl(c, u) ==
  /\ pc[c] = "idle"
  /\ origin' = [origin EXCEPT ![c] = "client"]
  /\ url' = [url EXCEPT ![c] = u]
  /\ IF ~ParseUrl(u).ok
       THEN /\ result' = [result EXCEPT ![c] = ClientError(MsgTypeError)]
            /\ pc' = [pc EXCEPT ![c] = "returned"]
       ELSE /\ pc' = [pc EXCEPT ![c] = "posted"]
            /\ UNCHANGED result
  /\ UNCHANGED <<apiKey, remote, local, response, log, probe>>

\* analyzeUrl without the test of response.ok.
ClientResultUnchecked(r) ==
  [returned |-> TRUE, title |-> r.title, content |-> r.content, error |-> <<>>]

\* What analyzeUrl makes of the response of the route, lines 19 to 25.
ClientResult(r) ==
  IF r.status >= 200 /\ r.status <= 299
    THEN [returned |-> TRUE, title |-> r.title, content |-> r.content, error |-> <<>>]
    ELSE ClientError(IF r.error # <<>> THEN r.error ELSE MsgClientDefault)

\* analyzeUrl after its fetch.
ClientReceives(c) ==
  /\ pc[c] = "responded"
  /\ origin[c] = "client"
  /\ result' = [result EXCEPT ![c] = ClientResult(response[c])]
  /\ pc' = [pc EXCEPT ![c] = "returned"]
  /\ UNCHANGED <<apiKey, remote, origin, url, local, response, log, probe>>

\* The fetch of analyzeUrl rejects (the request or its response is lost on the
\* way): the TypeError goes to the catch block.
ClientFetchFails(c) ==
  /\ pc[c] \in {"posted", "responded"}
  /\ origin[c] = "client"
  /\ result' = [result EXCEPT ![c] = ClientError(T("Failed to fetch"))]
  /\ pc' = [pc EXCEPT ![c] = "returned"]
  /\ log' = [log EXCEPT ![c] = log[c] \o <<"CLIENT:fetch_failed">>]
  /\ UNCHANGED <<apiKey, remote, origin, url, local, response, probe>>

\* response.json() of analyzeUrl (line 20 or 24) rejects, the body that
\* arrives being no JSON: the SyntaxError goes to the catch block.
ClientBodyUnreadable(c) ==
  /\ pc[c] = "responded"
  /\ origin[c] = "client"
  /\ result' = [result EXCEPT ![c] = ClientError(T("Unexpected end of JSON input"))]
  /\ pc' = [pc EXCEPT ![c] = "returned"]
  /\ log' = [log EXCEPT ![c] = log[c] \o <<"CLIENT:unreadable">>]
  /\ UNCHANGED <<apiKey, remote, origin, url, local, response, probe>>

\* What answers analyzeUrl in place of the route: the middleware, which also
\* stands before /api/analyze-url, with its 403 (middleware.ts lines 29 to
\* 41), or the platform with a JSON body that has no error member.
Refusals == {ErrorResponse(403, T("Access Denied")), ErrorResponse(502, <<>>)}

\* The request of analyzeUrl is answered before it reaches the route, with a
\* response that is not OK: lines 19 to 22 throw into the catch block.
ClientRefused(c, r) ==
  /\ pc[c] = "posted"
  /\ origin[c] = "client"
  /\ result' = [result EXCEPT ![c] = ClientResult(r)]
  /\ pc' = [pc EXCEPT ![c] = "returned"]
  /\ log' = [log EXCEPT ![c] = log[c] \o <<"CLIENT:refused">>]
  /\ UNCHANGED <<apiKey, remote, origin, url, local, response, probe>>

-----------------------------------------------------------------------------
(* POST, the route                                                         *)

\* A variant of Respond that keeps the response in one place for all calls.
RespondShared(c, r) ==
  /\ response' = [d \in Calls |-> r]
  /\ pc' = [pc EXCEPT ![c] = "responded"]

\* return NextResponse.json(...): the response of call c.
Respond(c, r) ==
  /\ response' = [response EXCEPT ![c] = r]
  /\ pc' = [pc EXCEPT ![c] = "responded"]

Record(c, events) == log' = [log EXCEPT ![c] = log[c] \o events]

\* A bare POST of { url } to the route.
DirectPost(c, u) ==
  /\ pc[c] = "idle"
  /\ origin' = [origin EXCEPT ![c] = "direct"]
  /\ url' = [url EXCEPT ![c] = u]
  /\ pc' = [pc EXCEPT ![c] = "posted"]
  /\ UNCHANGED <<apiKey, remote, local, response, result, log, probe>>

\* A POST whose body request.json() cannot read: line 5 throws into the outer
\* catch.
PostUnreadable(c) ==
  /\ pc[c] = "idle"
  /\ origin' = [origin EXCEPT ![c] = "direct"]
  /\ Respond(c, AnalysisFailed)
  /\ UNCHANGED <<apiKey, remote, url, local, result, log, probe>>

\* Does fetch send a request for u?  It rejects a url whose scheme is not
\* http or https without sending anything.
IsHttp(u) == ParseUrl(u).protocol \in {"http:", "https:"}

\* Lines 5 to 38: the validation, then fetch(url) is called: the call waits
\* for the target ("fetch"), or for a promise that is rejected already
\* ("unsent").
Receive(c) ==
  LET Validated(rejection) ==
        IF rejection # NoResponse
          THEN /\ Respond(c, rejection)
               /\ UNCHANGED log
          ELSE /\ pc' = [pc EXCEPT ![c] = IF IsHttp(url[c]) THEN "fetch" ELSE "unsent"]
               /\ Record(c, <<"FETCH">>)
               /\ UNCHANGED response
  IN /\ pc[c] = "posted"
     /\ Validated(Validate(url[c]))
     /\ UNCHANGED <<apiKey, remote, origin, url, local, result, probe>>

\* What fetch(url) settles with: the platform's fetch rejects a URL whose
\* scheme is not http or https, and otherwise reports what the target does.
FetchOutcome(u) ==
  IF IsHttp(u)
    THEN (IF remote.outcome = "body_error" THEN "ok" ELSE remote.outcome)
    ELSE "network_error"

\* Has the promise call c awaits settled, so that the handler can go on?
\* request.json(), the body of an answer and the JSON of the summarizer's
\* answer settle in the model; the two fetch calls settle when the other side
\* answers or the transport fails, and never against a silent one.
Settled(c) ==
  CASE pc[c] = "fetch" -> remote.outcome # "silent"
    [] pc[c] = "openai" -> remote.summarizer = "answers"
    [] OTHER -> pc[c] \in {"posted", "unsent", "body", "openaiJson"}

\* A rejected fetch of the target or a non-2xx answer (line 41) lands in the
\* inner catch.
OnTargetFailure(u) == CatchFetchError(u)

\* A variant of OnLaterThrow without the inner catch: the outer catch answers.
RethrowLater(u) == AnalysisFailed

\* Whatever is thrown after the target answered (reading the body, calling
\* the summarizer, reading its answer) lands in the same inner catch.
OnLaterThrow(u) == CatchFetchError(u)

\* A variant of TargetResponds that calls fetch a second time when the first
\* call failed.
TargetRespondsRetry(c) ==
  LET Answered(outcome) ==
        IF outcome = "ok"
          THEN /\ pc' = [pc EXCEPT ![c] = "body"]
               /\ Record(c, <<"FETCH:2xx">>)
               /\ UNCHANGED response
        ELSE IF Len(log[c]) < 3
          THEN /\ Record(c, <<"FETCH:" \o outcome, "FETCH">>)
               /\ UNCHANGED <<pc, response>>
        ELSE /\ Respond(c, OnTargetFailure(url[c]))
             /\ Record(c, <<"FETCH:" \o outcome>>)
  IN /\ pc[c] \in {"fetch", "unsent"}
     /\ Settled(c)
     /\ Answered(FetchOutcome(url[c]))
     /\ UNCHANGED <<apiKey, remote, origin, url, local, result, probe>>

\* Lines 31 to 45: the GET settles.  Against a target that never answers
\* the await of line 31 has nothing to go on with: fetch is called without
\* a signal.
TargetResponds(c) ==
  LET Answered(outcome) ==
        IF outcome = "ok"
          THEN /\ pc' = [pc EXCEPT ![c] = "body"]
               /\ Record(c, <<"FETCH:2xx">>)
               /\ UNCHANGED response
          ELSE /\ Respond(c, OnTargetFailure(url[c]))
               /\ Record(c, <<"FETCH:" \o outcome>>)
  IN /\ pc[c] \in {"fetch", "unsent"}
     /\ Settled(c)
     /\ Answered(FetchOutcome(url[c]))
     /\ UNCHANGED <<apiKey, remote, origin, url, local, result, probe>>

\* Lines 50 to 149: the decoding of the body and the extraction.
Extract(u, contentType, buffer) ==
  LET Extracted(decoded, rawBodyText) ==
        [html |-> decoded.html,
         used |-> decoded.used,
         pageTitle |-> PageTitle(decoded.html, ParseUrl(u).hostname),
         rawBodyText |-> rawBodyText,
         bodyText |-> decodeHtmlEntities(rawBodyText),
         summary |-> <<>>]
      Decoded(decoded) == Extracted(decoded, RawBodyText(decoded.html))
  IN Decoded(ResolveCharset(contentType, buffer))

\* A variant of SummarizerEnabled that does not look at the environment.
SummarizerAlways == TRUE

\* if (process.env.OPENAI_API_KEY), line 152
SummarizerEnabled == apiKey

\* Lines 46 to 174: the body arrives, the page is decoded and extracted, and
\* either the summarizer is called or the excerpt is returned.
BodyArrives(c) ==
  LET Extracted(l) ==
        /\ local' = [local EXCEPT ![c] = l]
        /\ IF SummarizerEnabled
             THEN /\ pc' = [pc EXCEPT ![c] = "openai"]
                  /\ Record(c, <<"BODY", "OPENAI">>)
                  /\ UNCHANGED response
             ELSE /\ Respond(c, ExcerptNote(url[c], l.pageTitle, l.bodyText))
                  /\ Record(c, <<"BODY">>)
  IN /\ pc[c] = "body"
     /\ IF remote.outcome = "body_error"
          THEN /\ Respond(c, OnLaterThrow(url[c]))
               /\ Record(c, <<"BODY:error">>)
               /\ UNCHANGED local
          ELSE Extracted(Extract(url[c], remote.contentType, remote.buffer))
     /\ UNCHANGED <<apiKey, remote, origin, url, result, probe>>

\* Lines 153 to 176: the request to the summarizer settles with a 2xx answer
\* ("ok"), another answer ("http_error") or a rejection ("network_error").
\* This fetch has no signal either.
OpenAiResponds(c, outcome) ==
  /\ pc[c] = "openai"
  /\ Settled(c)
  /\ Record(c, <<"OPENAI:" \o outcome>>)
  /\ CASE outcome = "ok" ->
            /\ pc' = [pc EXCEPT ![c] = "openaiJson"]
            /\ UNCHANGED response
       [] outcome = "http_error" ->
            Respond(c, ExcerptNote(url[c], local[c].pageTitle, local[c].bodyText))
       [] outcome = "network_error" ->
            Respond(c, OnLaterThrow(url[c]))
  /\ UNCHANGED <<apiKey, remote, origin, url, local, result, probe>>

\* Lines 177 to 183: the body of the summarizer's answer is read.
\* aiData.choices[0].message.content throws when there is no first choice.
OpenAiBodyArrives(c, body) ==
  /\ pc[c] = "openaiJson"
  /\ IF body.readable /\ body.choices # <<>>
       THEN /\ Respond(c, AiNote(url[c], local[c].pageTitle, body.choices[1]))
            /\ local' = [local EXCEPT ![c].summary = body.choices[1]]
            /\ Record(c, <<"OPENAI:summary">>)
       ELSE /\ Respond(c, OnLaterThrow(url[c]))
            /\ UNCHANGED local
            /\ Record(c, <<IF body.readable THEN "OPENAI:no_choice" ELSE "OPENAI:unreadable">>)
  /\ UNCHANGED <<apiKey, remote, origin, url, result, probe>>

\* The steps of the route.
Route(c) ==
  \/ Receive(c)
  \/ TargetResponds(c)
  \/ BodyArrives(c)
  \/ \E outcome \in {"ok", "http_error", "network_error"} : OpenAiResponds(c, outcome)
  \/ \E body \in AiBodies : OpenAiBodyArrives(c, body)

Next ==
  \E c \in Calls :
    \/ \E u \in UrlInputs : AnalyzeUrl(c, u)
    \/ \E u \in UrlInputs : DirectPost(c, u)
    \/ PostUnreadable(c)
    \/ Route(c)
    \/ ClientReceives(c)
    \/ ClientFetchFails(c)
    \/ ClientBodyUnreadable(c)
    \/ \E r \in Refusals : ClientRefused(c, r)

Spec == Init /\ [][Next]_vars

-----------------------------------------------------------------------------
(* One call against a target or a summarizer that may never answer         *)

\* The targets of the calls that may wait without end.
LiveRemotes ==
  {FailedRemote("silent"), FailedRemote("http_error"), FailedRemote("body_error"),
   [outcome |-> "ok", contentType |-> <<>>, buffer |-> AllAgree(DocHello),
    summarizer |-> "answers"],
   [outcome |-> "ok", contentType |-> <<>>, buffer |-> AllAgree(DocHello),
    summarizer |-> "silent"]}

InitLive ==
  /\ apiKey \in BOOLEAN
  /\ remote \in LiveRemotes
  /\ InitCalls({1})
  /\ probe = NoProbe

\* The platform under the handler may end a request nobody answers on its
\* own account: the pending fetch then rejects like any failed transport.
\* Nothing in the handler makes it do so.
TransportGivesUp(c) ==
  /\ \/ /\ pc[c] = "fetch"
        /\ remote.outcome = "silent"
        /\ Respond(c, OnTargetFailure(url[c]))
        /\ Record(c, <<"FETCH:network_error">>)
     \/ /\ pc[c] = "openai"
        /\ remote.summarizer = "silent"
        /\ Respond(c, OnLaterThrow(url[c]))
        /\ Record(c, <<"OPENAI:network_error">>)
  /\ UNCHANGED <<apiKey, remote, origin, url, local, result, probe>>

NextLive ==
  \E c \in Calls :
    \/ \E u \in UrlInputs : DirectPost(c, u)
    \/ Route(c)
    \/ TransportGivesUp(c)

\* The handler of call c goes on from where it stands.
Resumes(c) ==
  /\ Settled(c)
  /\ \E p \in {"fetch", "unsent", "body", "openai", "openaiJson", "responded"} :
       pc' = [pc EXCEPT ![c] = p]

\* The event loop resumes a handler whose awaited promise has settled.
SpecLive == InitLive /\ [][NextLive]_vars /\ \A c \in Calls : WF_pc(Resumes(c))

-----------------------------------------------------------------------------
(* Two and more calls of the route against one remote                      *)

\* The url values and the remotes of the calls that run side by side.
PairUrls == {T("http://example.com/"), T("https://github.com/owner/repo")}

PairRemotes ==
  {[outcome |-> "ok", contentType |-> <<>>, buffer |-> AllAgree(DocEntities),
    summarizer |-> "answers"],
   [outcome |-> "ok", contentType |-> T("text/html; charset=Shift_JIS"),
    buffer |-> ShiftJisOnly(DocJapanese, DocGarbled), summarizer |-> "answers"],
   FailedRemote("body_error"),
   FailedRemote("http_error")}

InitPair ==
  /\ apiKey \in BOOLEAN
  /\ remote \in PairRemotes
  /\ InitCalls(Calls)
  /\ probe = NoProbe

NextPair ==
  \E c \in Calls :
    \/ \E u \in PairUrls : DirectPost(c, u)
    \/ Route(c)

SpecPair == InitPair /\ [][NextPair]_vars

-----------------------------------------------------------------------------
(* The charset resolution on its own                                       *)

\* What a strict decoder makes of a payload: it throws ("fail"), it decodes
\* without U+FFFD ("clean"), or it decodes to a text that holds U+FFFD
\* ("dirty": the bytes encode U+FFFD itself, which only UTF-8 can).
\* windows-1252 maps every byte.
ProbeOutcomes ==
  {o \in [Encodings -> {"fail", "clean", "dirty"}] :
     /\ o["windows-1252"] = "clean"
     /\ \A e \in Encodings : o[e] = "dirty" => e = "utf-8"}

\* The charset of the <meta> tag of the payload ("" for none) and of the
\* Content-Type header ("" for a header without charset).
ProbeMetas == {"", "utf-8", "utf8", "shift_jis", "Shift_JIS", "windows-1252", "x-unknown"}
ProbeHeaders == {"", "utf-8", "Shift_JIS", "euc-jp", "windows-1252", "x-unknown"}

\* The text a decoder of encoding e reads: the tags are ASCII, which every
\* encoding of the model reads alike, and the title tells the decodings apart.
ProbeText(meta, e, outcome) ==
  (IF meta = "" THEN <<>> ELSE T("<meta charset=\"") \o T(meta) \o T("\">"))
    \o T("<title>") \o T(e) \o T("</title>")
    \o (IF outcome = "dirty" THEN Ch(Replacement) ELSE <<>>)

ProbeBuffer(meta, o) ==
  [strict |-> [e \in Encodings |->
                 IF o[e] = "fail" THEN [ok |-> FALSE, text |-> <<>>]
                 ELSE [ok |-> TRUE, text |-> ProbeText(meta, e, o[e])]],
   lossy |-> IF o["utf-8"] = "fail" THEN ProbeText(meta, "lossy", "dirty")
             ELSE ProbeText(meta, "utf-8", o["utf-8"])]

ProbeContentType(header) ==
  IF header = "" THEN T("text/html") ELSE T("text/html; charset=") \o T(header)

InitCharset ==
  /\ apiKey = FALSE
  /\ remote = FailedRemote("network_error")
  /\ InitCalls({})
  /\ probe \in {[fn |-> "charset", stage |-> "input", header |-> h, meta |-> m,
                 outcome |-> o, html |-> <<>>, used |-> "none"] :
                  h \in ProbeHeaders, m \in ProbeMetas, o \in ProbeOutcomes}

\* Lines 47 to 103 applied to the header and payload of the probe.
ResolveProbe ==
  LET Resolved(decoded) ==
        probe' = [probe EXCEPT !.stage = "resolved", !.html = decoded.html,
                               !.used = decoded.used]
  IN /\ probe.fn = "charset"
     /\ probe.stage = "input"
     /\ Resolved(ResolveCharset(ProbeContentType(probe.header),
                                ProbeBuffer(probe.meta, probe.outcome)))
     /\ UNCHANGED <<apiKey, remote, pc, origin, url, local, response, result, log>>

SpecCharset == InitCharset /\ [][ResolveProbe]_vars

-----------------------------------------------------------------------------
(* The extraction on its own                                               *)

\* The most pieces a probe document is made of.
MaxPieces == 3

\* The pieces of the probe documents.  The long runs put the cut of the
\* excerpt before, inside and after an entity; the titles are on one line,
\* on several lines and empty.
Pieces ==
  {T("<title>t &lt; u</title>"), T("<p>"), T(" \n "), T("&amp;"), T("&#65;&unknown;"),
   Fill(1499), Fill(2996), T("<script>") \o Fill(3100) \o T("</script>"),
   T("<TITLE>\n v &amp; w\n</TITLE>"), T("<title></title>"),
   T("<STYLE type=a>p{}</STYLE>"), T("<title>&amp;lt;</title>")}

\* The hostname of the url of the probe documents.
ProbeHostname == T("example.com")

InitExtract ==
  /\ apiKey = FALSE
  /\ remote = FailedRemote("network_error")
  /\ InitCalls({})
  /\ probe = [fn |-> "extract", stage |-> "building", pieces |-> 0, html |-> <<>>,
              list |-> <<>>, pageTitle |-> <<>>, rawBodyText |-> <<>>, bodyText |-> <<>>]

AppendPiece(piece) ==
  /\ probe.fn = "extract"
  /\ probe.stage = "building"
  /\ probe.pieces < MaxPieces
  /\ probe' = [probe EXCEPT !.pieces = probe.pieces + 1, !.html = probe.html \o piece,
                            !.list = Append(probe.list, piece)]
  /\ UNCHANGED <<apiKey, remote, pc, origin, url, local, response, result, log>>

\* Lines 136 to 149 applied to the document of the probe.
ExtractProbe ==
  LET Decoded(rawBodyText) ==
        probe' = [probe EXCEPT !.stage = "extracted",
                               !.pageTitle = PageTitle(probe.html, ProbeHostname),
                               !.rawBodyText = rawBodyText,
                               !.bodyText = decodeHtmlEntities(rawBodyText)]
  IN /\ probe.fn = "extract"
     /\ probe.stage = "building"
     /\ Decoded(RawBodyText(probe.html))
     /\ UNCHANGED <<apiKey, remote, pc, origin, url, local, response, result, log>>

NextExtract ==
  \/ \E piece \in Pieces : AppendPiece(piece)
  \/ ExtractProbe

SpecExtract == InitExtract /\ [][NextExtract]_vars

-----------------------------------------------------------------------------
(* decodeHtmlEntities on its own                                           *)

\* The most characters a probe literal has.
MaxLit == 2

\* The hexadecimal digits of a number, in lower case.
RECURSIVE Hex(_)
Hex(k) ==
  IF k < 16 THEN SubSeq("0123456789abcdef", k + 1, k + 1)
  ELSE Hex(k \div 16) \o SubSeq("0123456789abcdef", (k % 16) + 1, (k % 16) + 1)

\* The UTF-16 code units of a code point.
CodePointText(cp) ==
  IF cp < 65536 THEN Ch(Chr(cp))
  ELSE Ch(Chr(55296 + ((cp - 65536) \div 1024))) \o Ch(Chr(56320 + ((cp - 65536) % 1024)))

\* The code points of the probe literals: a & < > " ' NBSP and U+1F600.
LiteralChars == {97, 38, 60, 62, 34, 39, 160, 128512}

\* The named entity of a code point.
NamedEntity(cp) ==
  CASE cp = 38 -> "&amp;"
    [] cp = 60 -> "&lt;"
    [] cp = 62 -> "&gt;"
    [] cp = 34 -> "&quot;"
    [] cp = 39 -> "&apos;"
    [] cp = 160 -> "&nbsp;"

\* The ways a code point is written in the encoded text.
Forms(cp) ==
  CASE cp \in {97, 128512} -> {"raw", "decimal", "hex", "HEX"}
    [] cp \in {38, 39, 160} -> {"named", "decimal", "hex", "HEX"}
    [] OTHER -> {"named"}

Encoded(cp, form) ==
  CASE form = "raw" -> CodePointText(cp)
    [] form = "named" -> T(NamedEntity(cp))
    [] form = "decimal" -> T("&#" \o ToString(cp) \o ";")
    [] form = "hex" -> T("&#x" \o Hex(cp) \o ";")
    [] form = "HEX" -> T("&#X" \o Hex(cp) \o ";")

InitEntities ==
  /\ apiKey = FALSE
  /\ remote = FailedRemote("network_error")
  /\ InitCalls({})
  /\ probe = [fn |-> "entities", stage |-> "encoding", chars |-> 0, literal |-> <<>>,
              encoded |-> <<>>, decoded |-> <<>>]

AppendChar(cp, form) ==
  /\ probe.fn = "entities"
  /\ probe.stage = "encoding"
  /\ probe.chars < MaxLit
  /\ probe' = [probe EXCEPT !.chars = probe.chars + 1,
                            !.literal = probe.literal \o CodePointText(cp),
                            !.encoded = probe.encoded \o Encoded(cp, form)]
  /\ UNCHANGED <<apiKey, remote, pc, origin, url, local, response, result, log>>

\* decodeHtmlEntities applied to the encoded text of the probe.
DecodeProbe ==
  /\ probe.fn = "entities"
  /\ probe.stage = "encoding"
  /\ probe' = [probe EXCEPT !.stage = "decoded",
                            !.decoded = decodeHtmlEntities(probe.encoded)]
  /\ UNCHANGED <<apiKey, remote, pc, origin, url, local, response, result, log>>

NextEntities ==
  \/ \E cp \in LiteralChars : \E form \in Forms(cp) : AppendChar(cp, form)
  \/ DecodeProbe

SpecEntities == InitEntities /\ [][NextEntities]_vars

\* Tokens that match /&[#]?[a-zA-Z0-9]+;/ and are neither an entry of entityMap
\* nor a decimal or hexadecimal character reference.
Tokens == {"&copy;", "&AMP;", "&#abc;", "&#xzz;", "&#x;", "&#12a;", "&#x4g;"}

\* A token written into the text as it stands.
AppendToken(tok) ==
  /\ probe.fn = "entities"
  /\ probe.stage = "encoding"
  /\ probe.chars < MaxLit
  /\ probe' = [probe EXCEPT !.chars = probe.chars + 1,
                            !.literal = probe.literal \o T(tok),
                            !.encoded = probe.encoded \o T(tok)]
  /\ UNCHANGED <<apiKey, remote, pc, origin, url, local, response, result, log>>

NextTokens ==
  \/ \E tok \in Tokens : AppendToken(tok)
  \/ AppendChar(97, "raw")
  \/ DecodeProbe

SpecTokens == InitEntities /\ [][NextTokens]_vars

-----------------------------------------------------------------------------
(* Properties of the pipeline (specification Spec)                         *)

Notes == {"ai", "excerpt", "slack", "github", "generic"}
Fallbacks == {"slack", "github", "generic"}

\* The route has answered call c, or analyzeUrl has returned.
Done(c) == pc[c] \in {"responded", "returned"}

\* C1: every input that does not parse as an absolute URL, or whose scheme is
\* neither http nor https, ends in a validation error (an {error} response of
\* the route, or the error analyzeUrl returns before any request), and
\* fetch is never called with it.
C1_InvalidInputIsRejected ==
  \A c \in Calls :
    Done(c) /\ ~isValidUrl(url[c]) =>
      /\ ~Logged(c, "FETCH")
      /\ \/ response[c].kind = "error"
         \/ origin[c] = "client" /\ response[c] = NoResponse
      /\ pc[c] = "returned" => result[c].error # <<>>

\* The network events of the route in the log of call c.
RouteLog(c) ==
  SelectSeq(log[c], LAMBDA e : e \notin {"CLIENT:fetch_failed", "CLIENT:unreadable",
                                          "CLIENT:refused"})

\* C2: once the url has passed the validation of the route, the call ends in
\* a 200 response with a title and a content and no error, whatever the
\* fetch, the decoding and the summarizer did; analyzeUrl hands it on when
\* it has read it.
C2_NoErrorAfterValidation ==
  \A c \in Calls :
    Done(c) /\ Validate(url[c]) = NoResponse /\ response[c] # NoResponse =>
      /\ response[c].status = 200
      /\ response[c].kind \in Notes
      /\ response[c].error = <<>>
      /\ pc[c] = "returned" /\ RouteLog(c) = log[c] =>
           /\ result[c].error = <<>>
           /\ result[c].title = response[c].title
           /\ result[c].content = response[c].content

\* C2 witness: a validated call whose summarizer answered 2xx with a body
\* that JSON cannot read, answered with a note.
C2_Witness ==
  \E c \in Calls :
    Done(c) /\ Logged(c, "OPENAI:unreadable") /\ response[c].status = 200

\* C3: when the fetch of the target returned 2xx and its body was read, the
\* result is built from the page (its title, with the summary or the
\* excerpt), never a Slack, GitHub or generic fallback note, whatever the
\* summarizer call did afterwards.
C3_FallbackOnlyAfterFailedFetch ==
  \A c \in Calls :
    Done(c) /\ Logged(c, "FETCH:2xx") /\ Logged(c, "BODY") =>
      /\ response[c].kind \notin Fallbacks
      /\ response[c].title = local[c].pageTitle

\* C4: the summarizer step never raises into the pipeline: with no key, with
\* a transport error, with a 2xx answer that has no usable first choice, and
\* with a non-2xx answer, the response is the excerpt template over the
\* extracted title and excerpt.
C4_SummarizerFailureGivesExcerpt ==
  \A c \in Calls :
    /\ Done(c)
    /\ \/ Logged(c, "BODY") /\ ~Logged(c, "OPENAI")
       \/ Logged(c, "OPENAI:network_error")
       \/ Logged(c, "OPENAI:http_error")
       \/ Logged(c, "OPENAI:no_choice")
       \/ Logged(c, "OPENAI:unreadable")
    => response[c] = ExcerptNote(url[c], local[c].pageTitle, local[c].bodyText)

\* Does the section heading of the page templates (what follows the "URL:"
\* line) of the response of call c read heading?
SectionHeadingIs(c, heading) ==
  OccursAt(response[c].content,
           Len(T("# ") \o local[c].pageTitle \o T("\n\nURL: ") \o url[c] \o T("\n\n")) + 1,
           heading \o T("\n\n"))

\* C5: with no OPENAI_API_KEY, no request goes to the summarization
\* endpoint, and every result of a fetched page is the excerpt template: its
\* section heading is the excerpt heading, not the AI summary heading.
C5_NoKeyNoSummarizer ==
  ~apiKey =>
    \A c \in Calls :
      /\ ~Logged(c, "OPENAI")
      /\ Done(c) /\ Logged(c, "BODY") =>
           /\ response[c] = ExcerptNote(url[c], local[c].pageTitle, local[c].bodyText)
           /\ SectionHeadingIs(c, HeadingExcerpt)
           /\ ~SectionHeadingIs(c, HeadingAiSummary)

\* C5 witness: a page fetched and answered with no key configured.
C5_Witness ==
  \E c \in Calls :
    ~apiKey /\ Done(c) /\ Logged(c, "BODY") /\ response[c].kind = "excerpt"

\* C6 as stated: in every {title, content} result the url occurs exactly
\* once in content.
C6_UrlOccursOnce ==
  \A c \in Calls :
    response[c].kind \in Notes => Occurrences(response[c].content, url[c]) = 1

\* Does text t end with text p?
EndsWith(t, p) == Len(p) <= Len(t) /\ OccursAt(t, Len(t) - Len(p) + 1, p)

\* The parts of the content of call c that come from the page or from the
\* summarizer.
PageParts(c) ==
  CASE response[c].kind = "ai" -> {local[c].pageTitle, local[c].summary}
    [] response[c].kind = "excerpt" ->
         {local[c].pageTitle, Substring(local[c].bodyText, ExcerptShown)}
    [] OTHER -> {}

\* C6 amended: in every {title, content} result, on every path, content
\* holds the url in the line "URL: <url>" and as the target of the link
\* that ends content; the url occurs at least twice, and exactly twice when
\* no part taken from the page or the summarizer contains it.
C6_UrlOccursAsLineAndLink ==
  \A c \in Calls :
    response[c].kind \in Notes =>
      /\ Occurrences(response[c].content, T("\n\nURL: ") \o url[c] \o T("\n\n")) >= 1
      /\ EndsWith(response[c].content, T("](") \o url[c] \o T(")"))
      /\ Occurrences(response[c].content, url[c]) >= 2
      /\ (\A part \in PageParts(c) : ~Includes(part, url[c])) =>
           Occurrences(response[c].content, url[c]) = 2

\* C6 witness: an excerpt note whose page does not mention the url.
C6_Witness ==
  \E c \in Calls :
    /\ response[c].kind = "excerpt"
    /\ \A part \in PageParts(c) : ~Includes(part, url[c])
    /\ Occurrences(response[c].content, url[c]) = 2

-----------------------------------------------------------------------------
(* Properties of the charset resolution (specification SpecCharset)        *)

\* The encoding a label of the probes names; "none" for no or an unknown label.
LabelEncoding(label) ==
  CASE label = "utf-8" -> "utf-8"
    [] label \in {"shift_jis", "Shift_JIS"} -> "shift_jis"
    [] label = "euc-jp" -> "euc-jp"
    [] label = "windows-1252" -> "windows-1252"
    [] OTHER -> "none"

\* What the decoder of encoding e reads in the payload of the probe.
Decoding(e) == ProbeText(probe.meta, e, probe.outcome[e])

\* The priority order of the claim: the charset of the header, then the four.
PriorityOrder ==
  (IF LabelEncoding(probe.header) = "none" THEN <<>> ELSE <<LabelEncoding(probe.header)>>)
    \o <<"utf-8", "shift_jis", "euc-jp", "iso-2022-jp">>

\* The first index of order whose encoding decodes the payload cleanly, or 0.
FirstClean(order) == First({i \in 1..Len(order) : probe.outcome[order[i]] = "clean"})

\* C7 as stated: when the payload decodes cleanly under more than one
\* charset of the priority order (header charset, utf-8, shift_jis, euc-jp,
\* iso-2022-jp), the text handed on is the decoding under the first clean one.
C7_FirstCleanCharsetWins ==
  /\ probe.fn = "charset"
  /\ probe.stage = "resolved"
  /\ Cardinality({PriorityOrder[i] : i \in {j \in 1..Len(PriorityOrder) :
                                            probe.outcome[PriorityOrder[j]] = "clean"}}) >= 2
  => probe.html = Decoding(PriorityOrder[FirstClean(PriorityOrder)])

\* The first clean decoding in the order utf-8, shift_jis, euc-jp,
\* iso-2022-jp; the lossy UTF-8 decoding when none is clean.
CandidateText ==
  LET Text(i) ==
        IF i = 0 THEN ProbeBuffer(probe.meta, probe.outcome).lossy
        ELSE Decoding(<<"utf-8", "shift_jis", "euc-jp", "iso-2022-jp">>[i])
  IN Text(FirstClean(<<"utf-8", "shift_jis", "euc-jp", "iso-2022-jp">>))

\* C7 amended: the text handed on is the strict decoding under the charset
\* of the Content-Type header whenever that decoding succeeds, with or
\* without U+FFFD; otherwise it is the first clean decoding in the order
\* utf-8, shift_jis, euc-jp, iso-2022-jp (the lossy UTF-8 decoding when none
\* is clean); and only when the header names no charset and that text holds
\* no U+FFFD, the clean strict decoding under a <meta charset> other than
\* utf-8 replaces it.
C7_ResolutionOrder ==
  probe.fn = "charset" /\ probe.stage = "resolved" =>
    probe.html =
      IF LabelEncoding(probe.header) # "none"
           /\ probe.outcome[LabelEncoding(probe.header)] # "fail"
        THEN Decoding(LabelEncoding(probe.header))
      ELSE IF probe.header # "" THEN CandidateText
      ELSE IF /\ LabelEncoding(probe.meta) \notin {"none", "utf-8"}
              /\ ~HasReplacement(CandidateText)
              /\ probe.outcome[LabelEncoding(probe.meta)] = "clean"
        THEN Decoding(LabelEncoding(probe.meta))
      ELSE CandidateText

\* C7 witness: no header charset, clean as utf-8 and as shift_jis, and a
\* <meta charset> of shift_jis: the shift_jis decoding is handed on.
C7_Witness ==
  /\ probe.fn = "charset"
  /\ probe.stage = "resolved"
  /\ probe.header = ""
  /\ probe.meta = "shift_jis"
  /\ probe.outcome["utf-8"] = "clean"
  /\ probe.outcome["shift_jis"] = "clean"
  /\ probe.html = Decoding("shift_jis")

-----------------------------------------------------------------------------
(* Properties of the extraction (specification SpecExtract)                *)

\* C8: the body excerpt has at most 3000 characters after the truncation
\* and after the entity decoding, which never lengthens it.
C8_ExcerptWithinCap ==
  probe.fn = "extract" /\ probe.stage = "extracted" =>
    /\ TextLen(probe.rawBodyText) <= ExcerptCap
    /\ TextLen(probe.bodyText) <= TextLen(probe.rawBodyText)

\* C8 witness: a document with more visible text than the cap, cut to the
\* cap, one of whose entities was decoded.
C8_Witness ==
  /\ probe.fn = "extract"
  /\ probe.stage = "extracted"
  /\ TextLen(VisibleText(probe.html)) > ExcerptCap
  /\ TextLen(probe.rawBodyText) = ExcerptCap
  /\ TextLen(probe.bodyText) < TextLen(probe.rawBodyText)

-----------------------------------------------------------------------------
(* Properties of decodeHtmlEntities (specification SpecEntities)           *)

\* C9: a literal text written with named entities and with decimal or
\* hexadecimal character references (either case of the hex marker, any
\* code point) decodes to the literal text.
C9_EntityRoundTrip ==
  probe.fn = "entities" /\ probe.stage = "decoded" => probe.decoded = probe.literal

\* C21: a token of the entity pattern that is neither a named entity nor a
\* well-formed decimal or hexadecimal character reference is in the output of
\* decodeHtmlEntities as it was in the input.
C21_MalformedTokensUnchanged ==
  probe.fn = "entities" /\ probe.stage = "decoded" /\ probe.literal = probe.encoded
    => probe.decoded = probe.encoded

-----------------------------------------------------------------------------
(* Properties of calls side by side (specification SpecPair)               *)

SoloResponse(u, events, summary) ==
  LET Saw(event) == \E i \in 1..Len(events) : events[i] = event
      Summarized(l) ==
        IF ~SummarizerEnabled \/ Saw("OPENAI:http_error")
          THEN ExcerptNote(u, l.pageTitle, l.bodyText)
        ELSE IF Saw("OPENAI:summary") THEN AiNote(u, l.pageTitle, summary)
        ELSE OnLaterThrow(u)
      Fetched(outcome) ==
        IF outcome # "ok" THEN OnTargetFailure(u)
        ELSE IF remote.outcome = "body_error" THEN OnLaterThrow(u)
        ELSE Summarized(Extract(u, remote.contentType, remote.buffer))
      Validated(rejection) ==
        IF rejection # NoResponse THEN rejection ELSE Fetched(FetchOutcome(u))
  IN Validated(Validate(u))

\* Is call c suspended at one of its awaits?
InFlight(c) == pc[c] \in {"fetch", "unsent", "body", "openai", "openaiJson"}

\* C11: calls in flight side by side do not touch each other: a call that
\* has not answered has no response, the locals of a waiting call are those
\* of its own url, and the response of every answered call is the response the
\* handler gives to its url when it runs alone against the same target and
\* the same summarizer answers.
C11_CallsAreIndependent ==
  \A c \in Calls :
    /\ ~Done(c) => response[c] = NoResponse
    /\ InFlight(c) /\ local[c] # NoLocal =>
         [local[c] EXCEPT !.summary = <<>>]
           = Extract(url[c], remote.contentType, remote.buffer)
    /\ Done(c) => response[c] = SoloResponse(url[c], log[c], local[c].summary)

\* C11 witness: two calls with different urls, both past the fetch of the
\* target at the same time: one has answered with the AI summary while the
\* other still waits for the summarizer.
C11_Witness ==
  \E c1, c2 \in Calls :
    /\ url[c1] # url[c2]
    /\ pc[c1] = "responded"
    /\ response[c1].kind = "ai"
    /\ pc[c2] \in {"openai", "openaiJson"}
    /\ local[c2].pageTitle # <<>>

-----------------------------------------------------------------------------
(* Properties of calls that may wait (specification SpecLive)              *)

\* C12: both outbound requests are bounded by timeouts of the handler:
\* every call that reached the route is answered in the end, also when the
\* target or the summarization endpoint never answers.
C12_EveryCallIsAnswered ==
  \A c \in Calls : (pc[c] = "posted") ~> (pc[c] = "responded")

-----------------------------------------------------------------------------
(* Properties of the requests a call sends (specification Spec)            *)

\* How often does event occur in the log of call c?
Count(c, event) == Cardinality({i \in 1..Len(log[c]) : log[c][i] = event})

\* C13: a call calls fetch for the target at most once and for the
\* summarizer at most once; when the fetch of the target failed, nothing was
\* requested after it and the call answered with a fallback note.
C13_NoRetry ==
  \A c \in Calls :
    /\ Count(c, "FETCH") <= 1
    /\ Count(c, "OPENAI") <= 1
    /\ \A failure \in {"FETCH:http_error", "FETCH:network_error"} :
         Logged(c, failure) =>
           /\ RouteLog(c) = <<"FETCH", failure>>
           /\ Done(c)
           /\ response[c].kind \in Fallbacks

\* C13 witness: a call whose target answered non-2xx has answered with a
\* fallback note.
C13_Witness ==
  \E c \in Calls :
    /\ Logged(c, "FETCH:http_error")
    /\ Done(c)
    /\ response[c].kind \in Fallbacks

-----------------------------------------------------------------------------
(* Properties of the fallback notes (specification Spec)                   *)

\* Did the fetch of the target of call c fail?
FetchFailed(c) == Logged(c, "FETCH:http_error") \/ Logged(c, "FETCH:network_error")

\* The segment of path that ends at its last item other than "/"; the empty
\* text when there is none.
LastSegment(path) ==
  LET Segment(b, e) == SubSeq(path, b + 1, e)
      EndsAt(e) == Segment(Last({j \in 1..e : path[j].c = "/"}), e)
  IN EndsAt(Last({j \in 1..Len(path) : path[j].c # "/"}))

\* C14: when the fetch failed and the hostname contains "slack.com", the
\* result is the private-content note: its title is "Slack - " and the last
\* non-empty segment of the path (the generic label when there is none), its
\* content holds the privacy notice and the url; this also when the hostname
\* contains "github.com".
C14_SlackNoteComesFirst ==
  \A c \in Calls :
    Done(c) /\ FetchFailed(c) /\ Includes(ParseUrl(url[c]).hostname, T("slack.com")) =>
      /\ response[c].status = 200
      /\ response[c].title =
           T("Slack - ") \o (IF LastSegment(ParseUrl(url[c]).pathname) = <<>>
                               THEN SlackDefaultName
                               ELSE LastSegment(ParseUrl(url[c]).pathname))
      /\ Includes(response[c].content, SlackNotice)
      /\ Includes(response[c].content, url[c])

\* C14 witness: a failed fetch of a url whose hostname contains both
\* markers and whose path has two segments, answered with the Slack note.
C14_Witness ==
  \E c \in Calls :
    /\ Done(c)
    /\ FetchFailed(c)
    /\ Includes(ParseUrl(url[c]).hostname, T("slack.com"))
    /\ Includes(ParseUrl(url[c]).hostname, T("github.com"))
    /\ Len(PathParts(ParseUrl(url[c]).pathname)) >= 2
    /\ OccursAt(response[c].title, 1, T("Slack - "))

\* Is call c a failed fetch of a url whose hostname contains "github.com"
\* and not "slack.com"?
GitHubCase(c) ==
  /\ Done(c)
  /\ FetchFailed(c)
  /\ Includes(ParseUrl(url[c]).hostname, T("github.com"))
  /\ ~Includes(ParseUrl(url[c]).hostname, T("slack.com"))

\* The non-empty segments of the path of the url of call c.
Segments(c) == PathParts(ParseUrl(url[c]).pathname)

\* Is the response of call c the default note, titled with the hostname?
IsDefaultNote(c) ==
  /\ response[c].title = ParseUrl(url[c]).hostname
  /\ OccursAt(response[c].content, 1, T("# ") \o ParseUrl(url[c]).hostname \o T("\n\n"))
  /\ Includes(response[c].content, GenericNotice)

\* C15 as stated: in the GitHub case with two or more segments the title
\* and the body name exactly the first two segments, owner/repo; with fewer
\* the result is the default note titled with the hostname.
C15_GitHubNoteNamesOwnerRepo ==
  \A c \in Calls :
    GitHubCase(c) =>
      IF Len(Segments(c)) >= 2
        THEN /\ response[c].title = T("GitHub - ") \o Segments(c)[1] \o T("/") \o Segments(c)[2]
             /\ Includes(response[c].content,
                         LabelRepository \o Segments(c)[1] \o T("/") \o Segments(c)[2] \o T("\n"))
        ELSE IsDefaultNote(c)

\* C15 amended: in the GitHub case with two or more segments the title is
\* "GitHub - " and all segments of the path joined by "/" (owner/repo when
\* there are two), and the repository line of the body names the first two;
\* with fewer segments the result is the default note titled with the
\* hostname.
C15_GitHubNoteNamesPath ==
  \A c \in Calls :
    GitHubCase(c) =>
      IF Len(Segments(c)) >= 2
        THEN /\ response[c].title = T("GitHub - ") \o Join(Segments(c), T("/"))
             /\ Includes(response[c].content,
                         LabelRepository \o Segments(c)[1] \o T("/") \o Segments(c)[2] \o T("\n"))
        ELSE IsDefaultNote(c)

\* C15 witness: a failed fetch of a GitHub url with three segments, titled
\* with all three.
C15_Witness ==
  \E c \in Calls :
    /\ GitHubCase(c)
    /\ Len(Segments(c)) = 3
    /\ response[c].title = T("GitHub - owner/repo/issues")
    /\ Includes(response[c].content, LabelRepository \o T("owner/repo\n"))

-----------------------------------------------------------------------------
(* Properties of the validation (specification Spec)                       *)

\* Was the url of call c turned down by the validation: by new URL in
\* analyzeUrl before any request, or by the route with a 400 response?
RejectedAtValidation(c) ==
  \/ origin[c] = "client" /\ response[c] = NoResponse /\ result[c].error = MsgTypeError
  \/ response[c] \in {MissingUrl, InvalidUrl}

\* C16: isValidUrl accepts exactly the url strings the validation of the
\* pipeline accepts: for every finished call whose request carried a url,
\* isValidUrl(url) holds if and only if neither analyzeUrl nor the route
\* turned the url down at validation.
C16_ValidatorAgreesWithPipeline ==
  \A c \in Calls :
    Done(c) /\ response[c] # AnalysisFailed =>
      (isValidUrl(url[c]) <=> ~RejectedAtValidation(c))

-----------------------------------------------------------------------------
(* Properties of the Markdown of the notes (specification Spec)            *)

\* The first line of text t.
FirstLine(t) ==
  LET Upto(stop) == SubSeq(t, 1, IF stop = 0 THEN Len(t) ELSE stop - 1)
  IN Upto(First({j \in 1..Len(t) : t[j].c = "\n"}))

\* The destination a Markdown reader gives the last link of text t: what
\* stands between its "](" and the next ")".
LinkDestination(t) ==
  LET Dest(from, stop) == SubSeq(t, from, IF stop = 0 THEN Len(t) ELSE stop - 1)
      Opens(at) ==
        IF at = 0 THEN <<>>
        ELSE Dest(at + 2, First({j \in (at + 2)..Len(t) : t[j].c = ")"}))
  IN Opens(Last({j \in 1..Len(t) : OccursAt(t, j, T("]("))}))

\* The heading the templates of call c give content: the title for the
\* notes of a page and the default note, a fixed text for Slack and GitHub.
HeadingText(c) ==
  CASE response[c].kind = "slack" -> From(HeadingSlack, 3)
    [] response[c].kind = "github" -> From(HeadingGitHub, 3)
    [] OTHER -> response[c].title

\* C17: the Markdown of every note is well formed whatever the title, the
\* excerpt, the summary and the url hold: the first line of content is the
\* heading and nothing else, and the link that ends content leads to the
\* url, so no character of the inputs ends the heading or the link early.
C17_MarkdownWellFormed ==
  \A c \in Calls :
    response[c].kind \in Notes =>
      /\ FirstLine(response[c].content) = T("# ") \o HeadingText(c)
      /\ LinkDestination(response[c].content) = url[c]

\* Does content of call c start with the heading text, a blank line, the
\* "URL:" line and a blank line, with rest right after them?
StartsWith(c, heading, rest) ==
  OccursAt(response[c].content, 1,
           T("# ") \o heading \o T("\n\nURL: ") \o url[c] \o T("\n\n") \o rest)

\* C18 as stated: every note has the same form: a first-level heading whose
\* text is the returned title, then a section with a "## " label, then the
\* link to the url.
C18_OneTemplate ==
  \A c \in Calls :
    response[c].kind \in Notes =>
      /\ StartsWith(c, response[c].title, T("## "))
      /\ EndsWith(response[c].content, T("](") \o url[c] \o T(")"))

\* C18 amended: every note starts with a first-level heading, a blank line
\* and the line "URL: <url>", and ends with the link to the url.  The
\* heading is the returned title in the AI, excerpt and default notes and a
\* fixed text ("Slack ..." or "GitHub ...", not the title) in the Slack and
\* GitHub notes; what follows the "URL:" line is a section with a "## "
\* label in every note but the GitHub note, which has the repository line.
C18_TemplatePerPath ==
  \A c \in Calls :
    response[c].kind \in Notes =>
      /\ StartsWith(c, HeadingText(c),
                    IF response[c].kind = "github" THEN LabelRepository ELSE T("## "))
      /\ response[c].kind \in {"slack", "github"} => HeadingText(c) # response[c].title
      /\ EndsWith(response[c].content, T("](") \o url[c] \o T(")"))

\* C18 witness: a GitHub note: its heading is not its title and it has no
\* "## " section.
C18_Witness ==
  \E c \in Calls :
    /\ response[c].kind = "github"
    /\ OccursAt(response[c].content, 1, HeadingGitHub \o T("\n\n"))
    /\ OccursAt(response[c].title, 1, T("GitHub - "))
    /\ ~Includes(response[c].content, T("## "))

-----------------------------------------------------------------------------
(* Properties of the title and the excerpt (specification SpecExtract)     *)

\* The text of the first <title> element of html, from its start tag to the
\* next end tag, as <<first, last>>; <<>> when html has no <title> element.
FirstTitleElement(html) ==
  LET Text(g, e) == IF e = 0 THEN <<>> ELSE <<g + 1, e - 1>>
      Opened(g) == IF g = 0 THEN <<>> ELSE Text(g, FirstCI(html, g + 1, "</title>"))
      Starts(s) == IF s = 0 THEN <<>> ELSE Opened(FirstGt(html, s + 6))
  IN Starts(FirstCI(html, 1, "<title"))

\* C19: the extracted title is the text of the first <title> element of the
\* document, trimmed and entity-decoded, also when that text spans several
\* lines or is empty; it is the hostname only when the document has no
\* <title> element.
C19_TitleIsFirstTitleElement ==
  probe.fn = "extract" /\ probe.stage = "extracted" =>
    probe.pageTitle =
      IF FirstTitleElement(probe.html) = <<>> THEN ProbeHostname
      ELSE decodeHtmlEntities(Trim(SubSeq(probe.html, FirstTitleElement(probe.html)[1],
                                          FirstTitleElement(probe.html)[2])))

\* What a reader of the page sees of a piece once the script and style
\* elements are gone and every other tag has become a blank.
Shown(piece) ==
  CASE piece = T("<title>t &lt; u</title>") -> T(" t &lt; u ")
    [] piece = T("<TITLE>\n v &amp; w\n</TITLE>") -> T(" \n v &amp; w\n ")
    [] piece = T("<title></title>") -> T("  ")
    [] piece = T("<title>&amp;lt;</title>") -> T(" &amp;lt; ")
    [] piece = T("<p>") -> T(" ")
    [] piece[1].c = "<" -> <<>>
    [] OTHER -> piece

RECURSIVE ShownAll(_)
ShownAll(list) == IF list = <<>> THEN <<>> ELSE Shown(Head(list)) \o ShownAll(Tail(list))

-----------------------------------------------------------------------------
(* Properties of the decoding of title and excerpt (specification SpecExtract) *)

\* C22: entities are decoded once, in the title and in the excerpt: every
\* "<" of the decoded text stands for one "&lt;" of the undecoded text and
\* every "&lt;" of the decoded text for one "&amp;lt;", so a doubly escaped
\* "&amp;lt;" becomes "&lt;" and never "<".
C22_DecodedOnce ==
  LET Once(raw, decoded) ==
        /\ Occurrences(decoded, T("<")) = Occurrences(raw, T("&lt;"))
        /\ Occurrences(decoded, T("&lt;")) = Occurrences(raw, T("&amp;lt;"))
  IN probe.fn = "extract" /\ probe.stage = "extracted" =>
       /\ Once(RawTitle(probe.html, ProbeHostname), probe.pageTitle)
       /\ Once(probe.rawBodyText, probe.bodyText)

\* C22 witness: a document whose title and whose excerpt are "&lt;", both
\* written as "&amp;lt;".
C22_Witness ==
  /\ probe.fn = "extract"
  /\ probe.stage = "extracted"
  /\ probe.list = << T("<title>&amp;lt;</title>") >>
  /\ probe.pageTitle = T("&lt;")
  /\ probe.bodyText = T("&lt;")

-----------------------------------------------------------------------------
(* Properties of the <meta> step (specification SpecCharset)               *)

\* The encoding the <meta> tag of the probe names: "none" without a tag,
\* "RangeError" for a label no decoder knows.
MetaEncoding == IF probe.meta = "" THEN "none" ELSE EncodingOfLabel(T(probe.meta))

\* The text the resolution has before the <meta> step: the strict decoding
\* under the header charset when there is one, else the text of the
\* candidate list or the lossy decoding.
TextBeforeMeta ==
  IF LabelEncoding(probe.header) # "none" /\ probe.outcome[LabelEncoding(probe.header)] # "fail"
    THEN Decoding(LabelEncoding(probe.header))
    ELSE CandidateText

\* C23 (as stated): after every resolution path, a payload whose text
\* declares a meta charset other than UTF-8, under which the bytes decode
\* strictly and without U+FFFD, ends up decoded with that charset: either it
\* is the charset already used or the re-decode has replaced the text.
C23_MetaAfterEveryPath ==
  /\ probe.fn = "charset"
  /\ probe.stage = "resolved"
  /\ MetaEncoding \notin {"none", "RangeError", "utf-8"}
  /\ probe.outcome[MetaEncoding] = "clean"
  => probe.used = MetaEncoding

\* C23 (amended): the <meta> step runs only when the header names no charset:
\* there, a text without U+FFFD that declares a meta charset other than
\* "utf-8" is replaced by the clean strict decoding under that charset; on
\* every other path, and on a text with U+FFFD, the text stays as it was
\* decoded.
C23_MetaOnlyWithoutHeader ==
  LET Runs == /\ probe.header = ""
              /\ probe.meta \notin {"", "utf-8"}
              /\ ~HasReplacement(CandidateText)
  IN probe.fn = "charset" /\ probe.stage = "resolved" =>
       /\ Runs /\ MetaEncoding # "RangeError" /\ probe.outcome[MetaEncoding] = "clean" =>
            probe.used = MetaEncoding /\ probe.html = Decoding(MetaEncoding)
       /\ ~Runs => probe.html = TextBeforeMeta

\* C23 witness: no header charset, a clean UTF-8 text that declares
\* windows-1252: the text is the windows-1252 decoding.
C23_Witness ==
  /\ probe.fn = "charset"
  /\ probe.stage = "resolved"
  /\ probe.header = ""
  /\ probe.meta = "windows-1252"
  /\ probe.outcome["utf-8"] = "clean"
  /\ probe.used = "windows-1252"

\* C24: the <meta> step replaces the text only by a strict decoding of the
\* payload that succeeds and has no U+FFFD; with an unknown label, a failed
\* decoding or a decoding with U+FFFD the text stays as it was and the
\* resolution ends without an error.
C24_MetaReplacesOnlyWhenClean ==
  probe.fn = "charset" /\ probe.stage = "resolved" =>
    /\ probe.html # TextBeforeMeta =>
         /\ MetaEncoding \notin {"none", "RangeError"}
         /\ probe.outcome[MetaEncoding] = "clean"
         /\ probe.html = Decoding(MetaEncoding)
    /\ (\/ MetaEncoding = "RangeError"
        \/ MetaEncoding \in Encodings /\ probe.outcome[MetaEncoding] # "clean")
         => probe.html = TextBeforeMeta

\* C24 witness: no header charset, a payload that is Shift_JIS and whose
\* UTF-8 reading has U+FFFD, declaring "utf8": the Shift_JIS text stays.
C24_Witness ==
  /\ probe.fn = "charset"
  /\ probe.stage = "resolved"
  /\ probe.header = ""
  /\ probe.meta = "utf8"
  /\ probe.outcome["utf-8"] = "dirty"
  /\ probe.outcome["shift_jis"] = "clean"
  /\ probe.html = Decoding("shift_jis")

\* C26 (as stated): the charset the payload is decoded with is one of utf-8,
\* shift_jis, euc-jp, iso-2022-jp or the lossy UTF-8 decoding.
C26_CharsetFromCandidateSet ==
  probe.fn = "charset" /\ probe.stage = "resolved" =>
    probe.used \in {"utf-8", "shift_jis", "euc-jp", "iso-2022-jp", "utf-8 (lossy)"}

\* C26 (amended): the charset the payload is decoded with is the one the
\* header names, one of utf-8, shift_jis, euc-jp, iso-2022-jp, the lossy
\* UTF-8 decoding or, without a header charset, the one a <meta> tag
\* declares.
C26_CharsetFromHeaderMetaOrCandidates ==
  probe.fn = "charset" /\ probe.stage = "resolved" =>
    \/ probe.used \in {"utf-8", "shift_jis", "euc-jp", "iso-2022-jp", "utf-8 (lossy)"}
    \/ probe.used = LabelEncoding(probe.header)
    \/ probe.header = "" /\ probe.used = MetaEncoding

\* C26 witness: a payload decoded with the windows-1252 of its header.
C26_Witness ==
  /\ probe.fn = "charset"
  /\ probe.stage = "resolved"
  /\ probe.header = "windows-1252"
  /\ probe.used = "windows-1252"
  /\ probe.html = Decoding("windows-1252")

-----------------------------------------------------------------------------
(* Properties of the charset resolution within a call (specification Spec) *)

\* C25: whatever the payload and the Content-Type header, once the body has
\* been read the call has a decoded text and goes on to the extraction: the
\* text is a strict decoding that succeeded or the lossy UTF-8 decoding, the
\* lossy decoding only when no candidate reads the payload without U+FFFD,
\* and without a summarizer the call is answered with the excerpt.
C25_ResolutionAlwaysYieldsText ==
  LET Clean(e) == remote.buffer.strict[e].ok /\ ~HasReplacement(remote.buffer.strict[e].text)
      Resolved(l) ==
        /\ l.used \in Encodings \cup {"utf-8 (lossy)"}
        /\ l.used \in Encodings =>
             remote.buffer.strict[l.used].ok /\ l.html = remote.buffer.strict[l.used].text
        /\ l.used = "utf-8 (lossy)" =>
             /\ l.html = remote.buffer.lossy
             /\ \A i \in 1..Len(charsets) : ~Clean(charsets[i])
  IN \A c \in Calls :
       /\ Logged(c, "FETCH:2xx") /\ pc[c] # "body" /\ remote.outcome = "ok" => Logged(c, "BODY")
       /\ Logged(c, "BODY") =>
            /\ Resolved(local[c])
            /\ Done(c) /\ ~apiKey => response[c].status = 200 /\ response[c].kind = "excerpt"

\* C25 witness: a payload no candidate reads, sent under a charset label no
\* decoder knows, answered with the excerpt of its lossy decoding.
C25_Witness ==
  \E c \in Calls :
    /\ Done(c)
    /\ ~apiKey
    /\ remote.contentType = T("text/html; charset=\"utf-8\"")
    /\ remote.buffer = Undecodable(DocGarbled)
    /\ local[c].used = "utf-8 (lossy)"
    /\ response[c].kind = "excerpt"

-----------------------------------------------------------------------------
(* Properties of analyzeUrl (specification Spec)                           *)

\* C27: analyzeUrl always returns a value.  For a url new URL cannot parse
\* (nothing is sent), a fetch that rejects, a response that is not OK or a
\* body that cannot be read, the value has an empty title, an empty content
\* and a non-empty error; for an OK response it is the data of the response.
C27_ClientNeverRejects ==
  LET Returned(c, parsed) ==
        LET failed == \/ ~parsed
                      \/ Logged(c, "CLIENT:fetch_failed")
                      \/ Logged(c, "CLIENT:unreadable")
                      \/ Logged(c, "CLIENT:refused")
                      \/ ~(response[c].status >= 200 /\ response[c].status <= 299)
        IN /\ result[c].returned
           /\ ~parsed => response[c] = NoResponse /\ log[c] = <<>>
           /\ failed =>
                result[c].title = <<>> /\ result[c].content = <<>> /\ result[c].error # <<>>
           /\ ~failed =>
                /\ result[c].title = response[c].title
                /\ result[c].content = response[c].content
                /\ result[c].error = <<>>
  IN \A c \in Calls :
       /\ origin[c] = "client" => pc[c] \in {"posted", "fetch", "unsent", "body", "openai",
                                             "openaiJson", "responded", "returned"}
       /\ origin[c] = "client" /\ pc[c] = "returned" => Returned(c, ParseUrl(url[c]).ok)

\* C27 witness: the request is answered with a response that is not OK and
\* has no error member; analyzeUrl returns its own message.
C27_Witness ==
  \E c \in Calls :
    /\ origin[c] = "client"
    /\ pc[c] = "returned"
    /\ Logged(c, "CLIENT:refused")
    /\ result[c] = ClientError(MsgClientDefault)

-----------------------------------------------------------------------------
(* NoteDialog: the title and content fields and the analysis on blur       *)

\* What the user types into the title field and into the content field.
TypedTitles == {<<>>, T(" https://example.com/ "), T("ftp://example.com/"), T("my note")}
TypedContents == {<<>>, T(" "), T("mine"), T("## Example")}

\* What analyzeUrl resolves to: a note, or the value of its catch block.
DialogResults ==
  {[returned |-> TRUE, title |-> T("Example"), content |-> T("## Example"), error |-> <<>>],
   ClientError(MsgClientDefault)}

\* The dialog as it opens: the fields hold the draft, nothing is analysed.
\* wrote and before keep, for the properties, whether an analysis has written
\* the content field and what the field held at that moment.
InitDialog ==
  /\ apiKey = FALSE
  /\ remote = FailedRemote("network_error")
  /\ InitCalls({})
  /\ probe \in {[fn |-> "dialog", isAnalyzingUrl |-> FALSE, title |-> <<>>, content |-> c,
                 value |-> <<>>, wrote |-> FALSE, before |-> <<>>] : c \in {<<>>, T("mine")}}

\* The user edits the title field, which is disabled while isAnalyzingUrl.
TypeTitle(t) ==
  /\ probe.fn = "dialog"
  /\ ~probe.isAnalyzingUrl
  /\ probe' = [probe EXCEPT !.title = t]
  /\ UNCHANGED <<apiKey, remote, pc, origin, url, local, response, result, log>>

\* The user edits the content field, which is never disabled.
TypeContent(t) ==
  /\ probe.fn = "dialog"
  /\ probe' = [probe EXCEPT !.content = t]
  /\ UNCHANGED <<apiKey, remote, pc, origin, url, local, response, result, log>>

\* onBlur of the title field up to its await: the content field is tested
\* here, and analyzeUrl is called with the trimmed title.
BlurTitle ==
  /\ probe.fn = "dialog"
  /\ ~probe.isAnalyzingUrl
  /\ IF isValidUrl(Trim(probe.title)) /\ Trim(probe.content) = <<>>
       THEN probe' = [probe EXCEPT !.isAnalyzingUrl = TRUE, !.value = Trim(probe.title)]
       ELSE UNCHANGED probe
  /\ UNCHANGED <<apiKey, remote, pc, origin, url, local, response, result, log>>

\* onBlur of the title field after its await: without an error the two fields
\* are set from the result, with one the user is alerted; finally
\* isAnalyzingUrl is reset.
AnalysisCompletes(r) ==
  /\ probe.fn = "dialog"
  /\ probe.isAnalyzingUrl
  /\ IF r.error = <<>>
       THEN probe' = [probe EXCEPT !.isAnalyzingUrl = FALSE, !.title = r.title,
                                  !.content = r.content, !.wrote = TRUE,
                                  !.before = probe.content]
       ELSE probe' = [probe EXCEPT !.isAnalyzingUrl = FALSE]
  /\ UNCHANGED <<apiKey, remote, pc, origin, url, local, response, result, log>>

NextDialog ==
  \/ \E t \in TypedTitles : TypeTitle(t)
  \/ \E t \in TypedContents : TypeContent(t)
  \/ BlurTitle
  \/ \E r \in DialogResults : AnalysisCompletes(r)

SpecDialog == InitDialog /\ [][NextDialog]_vars

\* C28: the analysis writes its result into the content field only if the
\* field is empty (blank at most) at the moment of the write, however the
\* blur, the typing and the completion of analyzeUrl interleave.
C28_AnalysisKeepsUserContent ==
  probe.fn = "dialog" /\ probe.wrote => Trim(probe.before) = <<>>

-----------------------------------------------------------------------------
(* KnowledgeWorkspace: the project list and the active project             *)

\* The most projects the database creates and the most deletions that wait
\* for the database at a time.
MaxProjects == 3
MaxPending == 2

\* The id the database gives to the k-th project.
ProjectId(k) == "p" \o ToString(k)

\* projects.filter(p => p.id !== id)
Remaining(list, id) == SelectSeq(list, LAMBDA p : p # id)

\* const activeProject: the listed project with the id activeProjectId, or null
activeProject(list, id) == IF \E i \in 1..Len(list) : list[i] = id THEN id ELSE "null"

\* The component after loadData: the projects of the database, the first of
\* them active.
InitProjects ==
  /\ apiKey = FALSE
  /\ remote = FailedRemote("network_error")
  /\ InitCalls({})
  /\ probe \in {[fn |-> "projects", projects |-> [i \in 1..n |-> ProjectId(i)],
                 activeProjectId |-> IF n = 0 THEN "null" ELSE ProjectId(1),
                 created |-> n, pending |-> {}] : n \in 0..2}

\* addProject: once createProject has returned an id, the new project is put
\* in front and made active; nothing happens when it returned null.
addProject(projectId) ==
  /\ probe.fn = "projects"
  /\ probe.created < MaxProjects
  /\ IF projectId # "null"
       THEN probe' = [probe EXCEPT !.projects = <<projectId>> \o probe.projects,
                                  !.activeProjectId = projectId,
                                  !.created = probe.created + 1]
       ELSE UNCHANGED probe
  /\ UNCHANGED <<apiKey, remote, pc, origin, url, local, response, result, log>>

\* The click on the tab of a project.
SelectProject(id) ==
  /\ probe.fn = "projects"
  /\ \E i \in 1..Len(probe.projects) : probe.projects[i] = id
  /\ probe' = [probe EXCEPT !.activeProjectId = id]
  /\ UNCHANGED <<apiKey, remote, pc, origin, url, local, response, result, log>>

\* deleteProject(activeProject.id) up to its await: the menu item is there
\* when activeProject is not null; the handler keeps the activeProjectId and
\* the projects of the render it belongs to.
deleteProject(id) ==
  /\ probe.fn = "projects"
  /\ id # "null"
  /\ id = activeProject(probe.projects, probe.activeProjectId)
  /\ Cardinality(probe.pending) < MaxPending
  /\ probe' = [probe EXCEPT !.pending =
                 probe.pending \cup {[id |-> id, activeProjectId |-> probe.activeProjectId,
                                      projects |-> probe.projects]}]
  /\ UNCHANGED <<apiKey, remote, pc, origin, url, local, response, result, log>>

\* deleteProject after its await, d being what the handler kept.
DeleteSettles(d, success) ==
  LET remaining == Remaining(d.projects, d.id)
      Active == IF d.activeProjectId = d.id
                  THEN IF remaining = <<>> THEN "null" ELSE remaining[1]
                  ELSE probe.activeProjectId
  IN /\ probe.fn = "projects"
     /\ d \in probe.pending
     /\ IF success
          THEN probe' = [probe EXCEPT !.pending = probe.pending \ {d},
                                     !.projects = Remaining(probe.projects, d.id),
                                     !.activeProjectId = Active]
          ELSE probe' = [probe EXCEPT !.pending = probe.pending \ {d}]
     /\ UNCHANGED <<apiKey, remote, pc, origin, url, local, response, result, log>>

NextProjects ==
  \/ \E projectId \in {ProjectId(probe.created + 1), "null"} : addProject(projectId)
  \/ \E id \in {ProjectId(k) : k \in 1..MaxProjects} : SelectProject(id)
  \/ \E id \in {ProjectId(k) : k \in 1..MaxProjects} : deleteProject(id)
  \/ \E d \in probe.pending : \E success \in BOOLEAN : DeleteSettles(d, success)

SpecProjects == InitProjects /\ [][NextProjects]_vars

\* C29: when no deletion waits for the database, activeProjectId is null or
\* the id of a project of the list, and it is null only when the list is
\* empty, however the additions, selections and deletions interleaved.
C29_ActiveProjectIsListed ==
  probe.fn = "projects" /\ probe.pending = {} =>
    /\ probe.activeProjectId = activeProject(probe.projects, probe.activeProjectId)
    /\ probe.activeProjectId = "null" => probe.projects = <<>>

-----------------------------------------------------------------------------
(* middleware: the IP allow-list                                           *)

\* An environment variable, a header or request.ip is << >> when it is not
\* there and << text >> when it is.

RECURSIVE SplitComma(_)
\* text.split(',')
SplitComma(t) ==
  LET At(i) ==
        IF i = 0 THEN <<t>>
        ELSE <<SubSeq(t, 1, i - 1)>> \o SplitComma(SubSeq(t, i + 1, Len(t)))
  IN At(First({j \in 1..Len(t) : t[j] = [c |-> ",", n |-> 1]}))

\* const ALLOWED_IPS, from the value of process.env.ALLOWED_IPS
ALLOWED_IPS(setting) ==
  LET Trimmed(list) == [i \in 1..Len(list) |-> Trim(list[i])]
  IN IF setting # <<>> /\ setting[1] # <<>>
       THEN Trimmed(SplitComma(setting[1]))
       ELSE << T("162.120.184.17") >>

\* function middleware(request): "next" for NextResponse.next(), "403" for
\* the response that denies the access.
middleware(request, isDevelopment, allowed) ==
  LET OrEmpty(v) == IF v = <<>> THEN <<>> ELSE v[1]
      first == IF request.forwardedFor = <<>> THEN <<>>
               ELSE Trim(SplitComma(request.forwardedFor[1])[1])
      clientIp == IF first # <<>> THEN first
                  ELSE IF OrEmpty(request.realIp) # <<>> THEN OrEmpty(request.realIp)
                  ELSE OrEmpty(request.ip)
  IN IF isDevelopment THEN "next"
     ELSE IF ~(\E i \in 1..Len(allowed) : allowed[i] = clientIp) THEN "403"
     ELSE "next"

\* The values of ALLOWED_IPS and of the request in the model.
Settings ==
  {<<>>, << <<>> >>, << T("10.0.0.1") >>, << T(" 10.0.0.1 , 10.0.0.2") >>,
   << T("10.0.0.1,") >>, << T(" ") >>}
ForwardedFors ==
  {<<>>, << T("10.0.0.1") >>, << T("10.0.0.9, 10.0.0.1") >>, << T(" , 10.0.0.1") >>,
   << T("162.120.184.17") >>}
RealIps == {<<>>, << T("10.0.0.2") >>, << T("10.0.0.9") >>}
ConnectionIps == {<<>>, << T("10.0.0.1") >>}

InitMiddleware ==
  /\ apiKey = FALSE
  /\ remote = FailedRemote("network_error")
  /\ InitCalls({})
  /\ probe \in {[fn |-> "middleware", stage |-> "request", setting |-> s,
                 isDevelopment |-> d,
                 request |-> [forwardedFor |-> f, realIp |-> r, ip |-> i],
                 answer |-> "none"] :
                  s \in Settings, d \in BOOLEAN, f \in ForwardedFors, r \in RealIps,
                  i \in ConnectionIps}

\* The middleware answers the request of the probe.
HandleRequest ==
  /\ probe.fn = "middleware"
  /\ probe.stage = "request"
  /\ probe' = [probe EXCEPT !.stage = "answered",
                            !.answer = middleware(probe.request, probe.isDevelopment,
                                                  ALLOWED_IPS(probe.setting))]
  /\ UNCHANGED <<apiKey, remote, pc, origin, url, local, response, result, log>>

SpecMiddleware == InitMiddleware /\ [][HandleRequest]_vars

\* The client IP of the request of the probe: the first entry of
\* x-forwarded-for, else x-real-ip, else the IP of the connection; << >>
\* when none of them gives one.
ProbeClientIp ==
  LET Given(first, realIp, ip) ==
        IF first # <<>> THEN first ELSE IF realIp # <<>> THEN realIp ELSE ip
      Value(v) == IF v = <<>> THEN <<>> ELSE v[1]
  IN Given(IF probe.request.forwardedFor = <<>> THEN <<>>
           ELSE Trim(SplitComma(probe.request.forwardedFor[1])[1]),
           Value(probe.request.realIp), Value(probe.request.ip))

\* C30: outside development a request is passed on only if it has a client
\* IP and that IP is one of the configured addresses; whatever ALLOWED_IPS
\* is, a request without a client IP is answered 403.
C30_OnlyAllowedIpsPass ==
  /\ probe.fn = "middleware"
  /\ probe.stage = "answered"
  /\ ~probe.isDevelopment
  /\ probe.answer = "next"
  => /\ ProbeClientIp # <<>>
     /\ \E i \in 1..Len(ALLOWED_IPS(probe.setting)) :
          ALLOWED_IPS(probe.setting)[i] = ProbeClientIp

=========================================================================
